---- MODULE Spec2Model ----
(***************************************************************************)
(* Burn / ISO job engine of pysideCDBurner.                                *)
(*                                                                         *)
(* The specifications of this module:                                      *)
(*   SpecRun        one run of BurnWorker.run / IsoCreateWorker.run, step  *)
(*                  by step (staging checkpoints, image build, write,      *)
(*                  verify, except / finally), with request_stop arriving  *)
(*                  at any moment;                                         *)
(*   Spec           the MainWindow coordinator burning a file list:        *)
(*                  start_burn, stop_burn, _on_done, the path list and its *)
(*                  size workers, the writer / media / speed pollers and   *)
(*                  the threads they start, with queued signal delivery;   *)
(*   SpecCreateIso  the coordinator in create-ISO mode on a machine with   *)
(*                  no recorder (output path, overwrite question,          *)
(*                  _on_iso_done);                                         *)
(*   SpecBurnIso    the coordinator burning an ISO file that may change on *)
(*                  disk between two UI events;                            *)
(*   SpecPoll       the pollers alone on a machine with two recorders      *)
(*                  (drive selection, speed cache);                        *)
(*   SpecTwoDrives  files burned on a machine with two recorders, the user *)
(*                  switching between them;                                *)
(*   SpecPaths      the path list and its serialized size workers;         *)
(*   SpecJobs       the coordinator starting jobs of both kinds, and       *)
(*                  FairJobs, the same with the fairness of the worker     *)
(*                  thread and of the event loop;                          *)
(*   SpecCalc       calls of one method on its own: _effective_mask,       *)
(*                  _is_over_capacity, _estimate_image_size,               *)
(*                  _configure_size_limits, _update_burn_enabled,          *)
(*                  start_burn in create-ISO mode, safe_copy_into_staging, *)
(*                  run() of the background workers;                       *)
(*   SpecRate       the progress, status and progress_info events of one   *)
(*                  job from its write stage on (OnUpdate callbacks of a   *)
(*                  burn, the write loop of an image creation).            *)
(***************************************************************************)
EXTENDS Naturals, Integers, Sequences, FiniteSets, TLC

\* ------------------------------------------------------------------ bounds
MaxSources == 2     \* source paths of one job
MaxChunks == 2      \* 1 MiB chunks of one source file
MaxEntries == 2     \* entries of one source directory
MaxImage == 2       \* 1 MiB chunks of a built image stream
MaxCallbacks == 3   \* OnUpdate callbacks of one fmt.Write call

\* ---------------------------------------------------------------- messages
MsgStopped == "Stopped by user"
MsgIsoNotFound == "ISO file not found"
MsgMediaUnsupported == "Media not supported for this recorder."
MsgFsiLimit == "fsi_limit_msg"
MsgSizeMismatch == "ISO size mismatch"
MsgVerifyMismatch == "Verify failed: size mismatch"
MsgPlatform == "platform error"
MsgCancelled == "request cancelled"
MsgCompleted == "Completed"
MsgIsoCreated == "ISO created message"

VARIABLES
  \* ---- one job run (SpecRun) ----
  kind,              \* "burn" (BurnWorker) or "iso" (IsoCreateWorker)
  iso_path,          \* BurnWorker.iso_path: "none", or what is at the path: "file",
                     \* "unreadable" (a file, getsize raises OSError), "missing"
  source_paths,      \* sequence of sources: [isdir, files (chunks per file), excluded]
  verify,            \* self.verify
  pc,                \* position in run()
  _stop_requested,   \* self._stop_requested
  tmpdir,            \* local tmpdir is set (mkdtemp returned)
  coinit,            \* local coinit
  exc,               \* str(e) of the exception being handled, "" when none
  srcIdx,            \* index of p in the for loop over source_paths
  entIdx,            \* index of the entry of the directory being mirrored
  chunksDone,        \* chunks of the current file already written
  expected_size,     \* IsoCreateWorker: block_size * total_blocks, in chunks
  imgLen,            \* chunks the image stream yields
  written,           \* IsoCreateWorker: written, in chunks
  actual_size,       \* IsoCreateWorker: os.path.getsize(output_path) of the verification,
                     \* in chunks; -1 until it is read
  wphase,            \* platform phase inside fmt.Write: "idle", "data", "verify"
  cbCount,           \* OnUpdate callbacks delivered by the current fmt.Write
  cancelled,         \* a CancelWrite call was accepted by the platform
  doneCount,         \* number of done emissions
  doneOk, doneMsg,   \* arguments of the last done emission
  afterDone,         \* a log/progress/status/progress_info was emitted after done
  rmtreeCount,       \* shutil.rmtree(tmpdir) calls
  rmtreeErr,         \* the rmtree call met an error (ignored)
  doneAtCleanup,     \* <<doneOk, doneMsg>> as emitted, recorded when finally starts
  cause,             \* why the try block ended: "none", "ok", "checkpoint", "failure"
  stopStage,         \* stage in which request_stop was first called, "none" before
  stopInCopy,        \* request_stop was called while a source path was being copied
  chunksAfterStop,   \* staging chunks written since the flag was set
  srcAfterStop,      \* a source copy was started with the flag already set
  laterAfterStop,    \* size walk / mask / build / write ran with the flag set in the copy loop
  \* ---- the coordinator (Spec) ----
  mw,                \* MainWindow: its fields, its widgets' state, the threads it started
  env,               \* the file system the window reads
  \* ---- one call of a pure method (SpecCalc) ----
  calc               \* the method called, its arguments and what it returned

runVars == <<kind, iso_path, source_paths, verify, pc, _stop_requested, tmpdir, coinit,
             exc, srcIdx, entIdx, chunksDone, expected_size, imgLen, written, actual_size, wphase,
             cbCount, cancelled, doneCount, doneOk, doneMsg, afterDone, rmtreeCount,
             rmtreeErr, doneAtCleanup, cause, stopStage, stopInCopy, chunksAfterStop,
             srcAfterStop, laterAfterStop>>

reqVars == <<kind, iso_path, source_paths, verify>>
posVars == <<srcIdx, entIdx, chunksDone>>
isoVars == <<expected_size, imgLen, written, actual_size>>
platVars == <<wphase, cbCount, cancelled>>
doneVars == <<doneCount, doneOk, doneMsg>>
cleanVars == <<rmtreeCount, rmtreeErr, doneAtCleanup>>
stopVars == <<_stop_requested, stopStage, stopInCopy>>
copyHist == <<chunksAfterStop, srcAfterStop>>

uiVars == <<mw, env>>

vars == <<runVars, uiVars, calc>>

\* ------------------------------------------------------------ job requests
FileSource(c) == [isdir |-> FALSE, files |-> <<c>>, excluded |-> FALSE]
DirSource(n) == [isdir |-> TRUE, files |-> [i \in 1..n |-> 1], excluded |-> FALSE]
ExcludedSource == [isdir |-> TRUE, files |-> <<>>, excluded |-> TRUE]

SourceChoices ==
  {FileSource(c) : c \in 0..MaxChunks} \cup {DirSource(n) : n \in 0..MaxEntries}
    \cup {ExcludedSource}

SourceLists ==
  UNION {[1..n -> SourceChoices] : n \in 1..MaxSources}

JobRequests ==
  {[kind |-> "burn", iso_path |-> i, source_paths |-> <<>>, verify |-> v] :
      i \in {"file", "unreadable", "missing"}, v \in BOOLEAN}
  \cup {[kind |-> k, iso_path |-> "none", source_paths |-> s, verify |-> v] :
      k \in {"burn", "iso"}, s \in SourceLists, v \in BOOLEAN}

\* ------------------------------------------------------------ run: helpers
CopyPcs == {"stage_loop", "tree_entry", "chunk_check", "chunk_io"}

\* The state of the section 4.4 state machine the run is in.
Stage ==
  CASE pc \in {"init", "recorder", "open_iso", "mkdtemp"} -> "Preparing"
    [] pc \in CopyPcs \cup {"size_walk"} -> "Staging"
    [] pc = "build" -> "BuildingImage"
    [] pc \in {"burn_setup", "iso_write_check", "iso_write_io", "iso_size_check"} -> "Writing"
    [] pc = "write" -> IF wphase = "verify" THEN "Verifying" ELSE "Writing"
    [] pc \in {"iso_verify_begin", "iso_verify"} -> "Verifying"
    [] OTHER -> "Ending"

Raise(msg, why) == pc' = "except" /\ exc' = msg /\ cause' = why
Goto(p) == pc' = p /\ UNCHANGED <<exc, cause>>
\* a log / progress / status / progress_info emission
EmitsEvents == afterDone' = (afterDone \/ doneCount > 0)
\* a stage after the copy loop runs
LaterStage == laterAfterStop' = (laterAfterStop \/ stopInCopy)

\* ------------------------------------------------------- coordinator state
MaxJobs == 2        \* job worker threads existing at one time
MaxPollers == 1     \* threads of one poller kind whose signals are still pending
MaxPaths == 3       \* distinct paths that exist on the machine

Recorders == {"A", "B"}
\* what list_imapi_writers can return, in enumeration order
WriterLists == {<<>>, <<"A">>, <<"A", "B">>, <<"B">>}
Paths == 1..MaxPaths

\* sizes in bytes (TLC integers are 32 bit: everything stays below 2^31)
MiB == 1048576
CapacityCD == 700 * MiB
PathSizes == {100 * MiB, 650 * MiB}
\* the ISO file on disk: -1 when it does not exist, else its size
IsoFileStates == {-1, 100 * MiB, 690 * MiB}
\* what a MediaStatusWorker can emit: result(uid, blank, supported, capacity) or error
BlankDisc == [error |-> FALSE, blank |-> TRUE, supported |-> TRUE, capacity |-> CapacityCD]
UsedDisc == [error |-> FALSE, blank |-> FALSE, supported |-> TRUE, capacity |-> CapacityCD]
NoDisc == [error |-> TRUE, blank |-> FALSE, supported |-> FALSE, capacity |-> -1]
\* what a SpeedLookupWorker can emit: result(uid, entries) or error
SpeedFound == [error |-> FALSE, entries |-> <<"48x">>]
SpeedFailed == [error |-> TRUE, entries |-> <<>>]
\* what a WriterLookupWorker can emit: result(writers, None) or result(None, message)
WritersFound(w) == [err |-> FALSE, writers |-> w]
WritersFailed == [err |-> TRUE, writers |-> <<>>]

_capacity_headroom_bytes == 33554432
OverheadMin == 134217728

Controls ==
  {"btn_add_files", "btn_remove", "btn_clear", "chk_use_iso_input", "btn_browse_iso",
   "btn_clear_iso", "iso_path_edit", "iso_out_path_edit", "btn_browse_iso_out",
   "btn_refresh", "drive", "volume", "write_speed", "action_burn_disc",
   "action_create_iso", "chk_verify", "act_eject", "btn_stop", "btn_burn"}

\* a thread slot: alive is QThread.isRunning(); res is the state of its result
\* signal ("none" not emitted, "queued" emitted and waiting in the event queue of
\* the main thread, "done" delivered); a slot is free once the thread has ended
\* and every signal of it was delivered. closeConn of a job: its finished signal
\* is connected to close(); closeQueued of the window: such a signal is queued.
FreeThread == [used |-> FALSE, alive |-> FALSE, res |-> "none", uid |-> "none"]
FreeJob == [used |-> FALSE, alive |-> FALSE, res |-> "none", kind |-> "none",
            stop |-> FALSE, ok |-> FALSE, msg |-> "", closeConn |-> FALSE]

\* the window as __init__ leaves it: burn-to-disc mode, nothing selected, the first
\* writer lookup started by refresh_writers(), the timers running.
InitMw ==
  [worker |-> 0, jobs |-> [j \in 1..MaxJobs |-> FreeJob],
   _burning |-> FALSE, _active_job |-> "none",
   create_iso |-> FALSE, use_iso |-> FALSE,
   list |-> <<>>, _path_sizes |-> [p \in Paths |-> -1], _total_size |-> 0, _pending_size |-> {},
   _size_queue |-> <<>>, _current_size_worker |-> [phase |-> "none", path |-> 0, size |-> 0],
   sizeWorkersAlive |-> 0,
   _iso_path |-> FALSE, _iso_size |-> -1,
   out_text |-> FALSE, _iso_out_seen |-> FALSE,
   items |-> <<>>, drive |-> "none", _known_writers |-> {},
   _media_blank |-> FALSE, _media_capacity_bytes |-> -1, _last_media_state |-> <<>>,
   _speed_cache |-> [u \in Recorders |-> [has |-> FALSE, entries |-> <<>>]],
   write_speed |-> <<>>,
   _writer_worker |-> 1,
   writerT |-> [i \in 1..MaxPollers |->
                  IF i = 1 THEN [FreeThread EXCEPT !.used = TRUE, !.alive = TRUE]
                           ELSE FreeThread],
   _media_worker |-> 0, mediaT |-> [i \in 1..MaxPollers |-> FreeThread],
   _speed_worker |-> 0, speedT |-> [i \in 1..MaxPollers |-> FreeThread],
   enabled |-> {"btn_add_files", "chk_use_iso_input", "drive", "volume", "write_speed",
                "action_burn_disc", "action_create_iso", "chk_verify", "act_eject"},
   status |-> "Idle",
   status_label |-> <<"Not Ready", "add files/folders", "select a drive",
                      "no blank/unsupported disc">>,
   modals |-> <<>>,
   _pending_close |-> FALSE, closeQueued |-> FALSE, closed |-> FALSE,
   doneKind |-> "none", doneOk |-> FALSE, doneMsg |-> "", doneStatus |-> "",
   doneDialog |-> "none",
   ovf |-> FALSE]

\* The machine: the ISO file, the output file, the paths the user picks from (here
\* one file or folder), and what the platform can answer to
\* the writer, media and speed lookups. Here: one recorder with a blank disc in it.
InitEnv == [isoFile |-> -1, outExists |-> FALSE, paths |-> {1},
            writers |-> {WritersFound(<<"A">>)},
            media |-> {BlankDisc, UsedDisc}, speeds |-> {SpeedFound}]
\* a machine without a recorder
EnvNoRecorder == [InitEnv EXCEPT !.writers = {WritersFound(<<>>), WritersFailed}]
\* a machine where recorders come and go and every lookup can fail
EnvTwoRecorders ==
  [InitEnv EXCEPT !.writers = {WritersFound(w) : w \in WriterLists} \cup {WritersFailed},
                  !.media = {BlankDisc, UsedDisc, NoDisc},
                  !.speeds = {SpeedFound, SpeedFailed}]


\* no pure method is under check
NoCall == [method |-> "none"]

\* the run variables when run() is entered for the request r
RunStart(r) ==
  /\ kind = r.kind /\ iso_path = r.iso_path
  /\ source_paths = r.source_paths /\ verify = r.verify
  /\ pc = "init" /\ _stop_requested = FALSE /\ tmpdir = FALSE /\ coinit = FALSE
  /\ exc = "" /\ srcIdx = 0 /\ entIdx = 0 /\ chunksDone = 0
  /\ expected_size = 0 /\ imgLen = 0 /\ written = 0 /\ actual_size = -1
  /\ wphase = "idle" /\ cbCount = 0 /\ cancelled = FALSE
  /\ doneCount = 0 /\ doneOk = FALSE /\ doneMsg = "" /\ afterDone = FALSE
  /\ rmtreeCount = 0 /\ rmtreeErr = FALSE /\ doneAtCleanup = <<FALSE, "">>
  /\ cause = "none" /\ stopStage = "none" /\ stopInCopy = FALSE
  /\ chunksAfterStop = 0 /\ srcAfterStop = FALSE /\ laterAfterStop = FALSE

InitRun ==
  /\ \E r \in JobRequests : RunStart(r)
  /\ mw = InitMw /\ env = InitEnv /\ calc = NoCall

\* ------------------------------------------------ BurnWorker / IsoCreateWorker
\* request_stop(): sets the shared flag; the UI calls it only on a running worker.
request_stop ==
  /\ pc # "ended" /\ ~_stop_requested
  /\ _stop_requested' = TRUE
  /\ stopStage' = Stage
  /\ stopInCopy' = (pc \in CopyPcs /\ srcIdx <= Len(source_paths))
  /\ UNCHANGED <<reqVars, pc, tmpdir, coinit, exc, posVars, isoVars, platVars, doneVars,
                 afterDone, cleanVars, cause, copyHist, laterAfterStop, uiVars, calc>>

\* run(), up to "import win32com.client": pythoncom import, CoInitialize.
RunInit(k, next) ==
  /\ pc = "init" /\ kind = k
  /\ \E fail \in {"no", "before_coinit", "after_coinit"} :
        /\ coinit' = (fail # "before_coinit")
        /\ IF fail = "no" THEN Goto(next) ELSE Raise(MsgPlatform, "failure")
  /\ UNCHANGED <<reqVars, stopVars, tmpdir, posVars, isoVars, platVars, doneVars,
                 afterDone, cleanVars, copyHist, laterAfterStop, uiVars, calc>>

BurnInit == RunInit("burn", "recorder")
IsoInit == RunInit("iso", "mkdtemp")

\* (variant: the staging directory is made whatever the input)
BurnRecorder_AlwaysStages ==
  /\ pc = "recorder" /\ kind = "burn"
  /\ EmitsEvents
  /\ \E fail \in BOOLEAN :
        IF fail THEN Raise(MsgPlatform, "failure") ELSE Goto("mkdtemp")
  /\ UNCHANGED <<reqVars, stopVars, tmpdir, coinit, posVars, isoVars, platVars, doneVars,
                 cleanVars, copyHist, laterAfterStop, uiVars, calc>>

\* 1) initialize recorder
BurnRecorder ==
  /\ pc = "recorder" /\ kind = "burn"
  /\ EmitsEvents
  /\ \E fail \in BOOLEAN :
        IF fail THEN Raise(MsgPlatform, "failure")
        ELSE Goto(IF iso_path # "none" THEN "open_iso" ELSE "mkdtemp")
  /\ UNCHANGED <<reqVars, stopVars, tmpdir, coinit, posVars, isoVars, platVars, doneVars,
                 cleanVars, copyHist, laterAfterStop, uiVars, calc>>

\* 2) prepare image stream, existing image: isfile check, ADODB stream load.
BurnOpenIso ==
  /\ pc = "open_iso" /\ kind = "burn"
  /\ IF iso_path = "missing"
        THEN Raise(MsgIsoNotFound, "failure") /\ UNCHANGED afterDone
        ELSE /\ EmitsEvents
             /\ \E fail \in BOOLEAN :
                   IF fail THEN Raise(MsgPlatform, "failure") ELSE Goto("burn_setup")
  /\ UNCHANGED <<reqVars, stopVars, tmpdir, coinit, posVars, isoVars, platVars, doneVars,
                 cleanVars, copyHist, laterAfterStop, uiVars, calc>>

\* self._last_est_size as step 2) leaves it: os.path.getsize(self.iso_path) of an
\* image of 700 MiB, 0 where it raises; the bytes of the staged sources otherwise
RECURSIVE Sum(_)
Sum(q) == IF q = <<>> THEN 0 ELSE Head(q) + Sum(Tail(q))
RECURSIVE StagedBytes(_)
StagedBytes(sources) ==
  IF sources = <<>> THEN 0
  ELSE (IF Head(sources).excluded THEN 0 ELSE MiB * Sum(Head(sources).files))
         + StagedBytes(Tail(sources))
_last_est_size ==
  IF iso_path = "file" THEN 700 * MiB
  ELSE IF iso_path = "unreadable" THEN 0
  ELSE StagedBytes(source_paths)
\* self._total_bytes_est = max(0, int(self._last_est_size)), set at "Starting burn..."
_total_bytes_est == IF _last_est_size > 0 THEN _last_est_size ELSE 0

\* tempfile.mkdtemp, os.makedirs(staging_dir), log "Copying sources into staging..."
RunMkdtemp(k) ==
  /\ pc = "mkdtemp" /\ kind = k
  /\ \E fail \in {"no", "mkdtemp", "makedirs"} :
        /\ tmpdir' = (fail # "mkdtemp")
        /\ IF fail = "no"
              THEN Goto("stage_loop") /\ srcIdx' = 1 /\ EmitsEvents
              ELSE Raise(MsgPlatform, "failure") /\ UNCHANGED <<srcIdx, afterDone>>
  /\ UNCHANGED <<reqVars, stopVars, coinit, entIdx, chunksDone, isoVars, platVars, doneVars,
                 cleanVars, copyHist, laterAfterStop, uiVars, calc>>

BurnMkdtemp == RunMkdtemp("burn")
IsoMkdtemp == RunMkdtemp("iso")

\* ------------------------------------------------------------- staging copy
CurSource == source_paths[srcIdx]

\* safe_copy_into_staging: excluded base name returns at once; a directory goes to
\* _copy_tree_chunked (makedirs, listdir), a file to _copy_file_chunked (open).
safe_copy_into_staging ==
  IF CurSource.excluded
    THEN Goto("stage_loop") /\ srcIdx' = srcIdx + 1 /\ UNCHANGED <<entIdx, chunksDone, srcAfterStop>>
    ELSE /\ srcAfterStop' = (srcAfterStop \/ _stop_requested)
         /\ \E fail \in BOOLEAN :
               IF fail
                 THEN Raise(MsgPlatform, "failure") /\ UNCHANGED posVars
                 ELSE /\ Goto(IF CurSource.isdir THEN "tree_entry" ELSE "chunk_check")
                      /\ entIdx' = 1 /\ chunksDone' = 0 /\ UNCHANGED srcIdx

\* _copy_tree_chunked: for name in names: if stop_check(): raise; copy the entry.
_copy_tree_chunked ==
  /\ pc = "tree_entry"
  /\ IF entIdx > Len(CurSource.files)
        THEN Goto("stage_loop") /\ srcIdx' = srcIdx + 1 /\ UNCHANGED <<entIdx, chunksDone>>
        ELSE IF _stop_requested
          THEN Raise(MsgStopped, "checkpoint") /\ UNCHANGED posVars
          ELSE \E fail \in BOOLEAN :
                 IF fail
                   THEN Raise(MsgPlatform, "failure") /\ UNCHANGED posVars
                   ELSE Goto("chunk_check") /\ chunksDone' = 0 /\ UNCHANGED <<srcIdx, entIdx>>
  /\ UNCHANGED <<reqVars, stopVars, tmpdir, coinit, isoVars, platVars, doneVars, afterDone,
                 cleanVars, copyHist, laterAfterStop, uiVars, calc>>

\* _copy_file_chunked, head of the loop: if stop_check and stop_check(): raise
CopyChunkCheck ==
  /\ pc = "chunk_check"
  /\ IF _stop_requested THEN Raise(MsgStopped, "checkpoint") ELSE Goto("chunk_io")
  /\ UNCHANGED <<reqVars, stopVars, tmpdir, coinit, posVars, isoVars, platVars, doneVars,
                 afterDone, cleanVars, copyHist, laterAfterStop, uiVars, calc>>

\* _copy_file_chunked, rest of the loop body: read; EOF -> break, copystat, return;
\* otherwise write the chunk and loop.
CopyChunkIO ==
  /\ pc = "chunk_io"
  /\ \E fail \in BOOLEAN :
        IF fail
          THEN Raise(MsgPlatform, "failure") /\ UNCHANGED <<posVars, chunksAfterStop>>
          ELSE IF chunksDone < CurSource.files[entIdx]
            THEN /\ Goto("chunk_check")
                 /\ chunksDone' = chunksDone + 1
                 /\ chunksAfterStop' = chunksAfterStop + (IF _stop_requested THEN 1 ELSE 0)
                 /\ UNCHANGED <<srcIdx, entIdx>>
            ELSE /\ UNCHANGED <<chunksDone, chunksAfterStop>>
                 /\ IF CurSource.isdir
                       THEN Goto("tree_entry") /\ entIdx' = entIdx + 1 /\ UNCHANGED srcIdx
                       ELSE Goto("stage_loop") /\ srcIdx' = srcIdx + 1 /\ UNCHANGED entIdx
  /\ UNCHANGED <<reqVars, stopVars, tmpdir, coinit, isoVars, platVars, doneVars, afterDone,
                 cleanVars, srcAfterStop, laterAfterStop, uiVars, calc>>

\* for p in self.source_paths: if self._stop_requested: raise ...;
\* safe_copy_into_staging(p, ...) up to the first checkpoint of the copy routine.
StageLoop(k) ==
  /\ pc = "stage_loop" /\ kind = k
  /\ IF srcIdx > Len(source_paths)
        THEN Goto("size_walk") /\ UNCHANGED <<posVars, srcAfterStop>>
        ELSE IF _stop_requested
          THEN Raise(MsgStopped, "checkpoint") /\ UNCHANGED <<posVars, srcAfterStop>>
          ELSE safe_copy_into_staging
  /\ UNCHANGED <<reqVars, stopVars, tmpdir, coinit, isoVars, platVars, doneVars, afterDone,
                 cleanVars, chunksAfterStop, laterAfterStop, uiVars, calc>>

BurnStageLoop == StageLoop("burn")
IsoStageLoop == StageLoop("iso")

\* total_bytes, largest_file = self._compute_staging_size(staging_dir); log
BurnSizeWalk ==
  /\ pc = "size_walk" /\ kind = "burn"
  /\ Goto("build") /\ EmitsEvents /\ LaterStage
  /\ UNCHANGED <<reqVars, stopVars, tmpdir, coinit, posVars, isoVars, platVars, doneVars,
                 cleanVars, copyHist, uiVars, calc>>

\* the same, then progress.emit(10) and status.emit("Building ISO image...")
IsoSizeWalk ==
  /\ pc = "size_walk" /\ kind = "iso"
  /\ Goto("build") /\ EmitsEvents /\ LaterStage
  /\ UNCHANGED <<reqVars, stopVars, tmpdir, coinit, posVars, isoVars, platVars, doneVars,
                 cleanVars, copyHist, uiVars, calc>>

\* Building file system image: _effective_mask, _configure_size_limits, AddTree
\* (size-limit overflow -> _fsi_limit_msg), CreateResultImage.
BurnBuild ==
  /\ pc = "build" /\ kind = "burn"
  /\ EmitsEvents /\ LaterStage
  /\ \E out \in {"ok", "limit", "error"} :
        CASE out = "ok" -> Goto("burn_setup")
          [] out = "limit" -> Raise(MsgFsiLimit, "failure")
          [] out = "error" -> Raise(MsgPlatform, "failure")
  /\ UNCHANGED <<reqVars, stopVars, tmpdir, coinit, posVars, isoVars, platVars, doneVars,
                 cleanVars, copyHist, uiVars, calc>>

\* 3) burn: log "Starting burn...", DispatchWithEvents, callbacks wired, verification
\* level, write speed, IsCurrentMediaSupported; the next step is fmt.Write.
BurnSetup ==
  /\ pc = "burn_setup" /\ kind = "burn"
  /\ EmitsEvents /\ LaterStage
  /\ \E out \in {"ok", "unsupported", "error"} :
        CASE out = "ok" -> Goto("write") /\ wphase' = "data" /\ cbCount' = 0
          [] out = "unsupported" -> Raise(MsgMediaUnsupported, "failure") /\ UNCHANGED <<wphase, cbCount>>
          [] out = "error" -> Raise(MsgPlatform, "failure") /\ UNCHANGED <<wphase, cbCount>>
  /\ UNCHANGED <<reqVars, stopVars, tmpdir, coinit, posVars, isoVars, cancelled, doneVars,
                 cleanVars, copyHist, uiVars, calc>>

\* DiscFormat2DataEvents.OnUpdate, called by the platform inside fmt.Write: with the
\* flag set it logs and calls sender.CancelWrite() (an error of that call is swallowed)
\* and returns; otherwise it emits status / progress for the reported action.
OnUpdate ==
  /\ pc = "write" /\ kind = "burn" /\ cbCount < MaxCallbacks
  /\ cbCount' = cbCount + 1
  /\ EmitsEvents
  /\ IF _stop_requested
        THEN /\ \E accepted \in BOOLEAN : cancelled' = (cancelled \/ accepted)
             /\ UNCHANGED wphase
        ELSE /\ \E action \in {"data"} \cup (IF verify THEN {"verify"} ELSE {}) :
                   /\ wphase = "verify" => action = "verify"
                   /\ wphase' = action
             /\ UNCHANGED cancelled
  /\ UNCHANGED <<reqVars, stopVars, pc, exc, cause, tmpdir, coinit, posVars, isoVars, doneVars,
                 cleanVars, copyHist, laterAfterStop, uiVars, calc>>

\* fmt.Write(image_stream) returns or raises: an accepted CancelWrite makes it raise;
\* it completes only after the platform has reported progress at least once.
BurnWrite ==
  /\ pc = "write" /\ kind = "burn"
  /\ IF cancelled
        THEN Raise(MsgCancelled, "checkpoint")
        ELSE \E ok \in BOOLEAN :
               IF ok THEN cbCount >= 1 /\ Goto("finish")
               ELSE Raise(MsgPlatform, "failure")
  /\ wphase' = "idle"
  /\ UNCHANGED <<reqVars, stopVars, tmpdir, coinit, posVars, isoVars, cbCount, cancelled,
                 doneVars, afterDone, cleanVars, copyHist, laterAfterStop, uiVars, calc>>

\* after fmt.Write: log, progress.emit(100), _emit_progress_info(100), status, log,
\* done.emit(True, "Completed")
BurnFinish ==
  /\ pc = "finish" /\ kind = "burn"
  /\ EmitsEvents
  /\ doneCount' = doneCount + 1 /\ doneOk' = TRUE /\ doneMsg' = MsgCompleted
  /\ pc' = "finally" /\ cause' = "ok" /\ UNCHANGED exc
  /\ UNCHANGED <<reqVars, stopVars, tmpdir, coinit, posVars, isoVars, platVars,
                 cleanVars, copyHist, laterAfterStop, uiVars, calc>>

\* (variant: the handler reports str(e) whatever the flag says)
ExceptMessage_NoFlag(stop, e) == e

\* except Exception as e: the message of done(False, ...) is chosen by the flag.
ExceptMessage(stop, e) == IF stop THEN MsgStopped ELSE e

\* (variant: the stopped branch logs but emits no done)
ExceptStep_Silent(k) ==
  /\ pc = "except" /\ kind = k
  /\ EmitsEvents
  /\ IF _stop_requested
        THEN UNCHANGED doneVars
        ELSE doneCount' = doneCount + 1 /\ doneOk' = FALSE /\ doneMsg' = exc
  /\ pc' = "finally" /\ UNCHANGED <<exc, cause>>
  /\ UNCHANGED <<reqVars, stopVars, tmpdir, coinit, posVars, isoVars, platVars,
                 cleanVars, copyHist, laterAfterStop, uiVars, calc>>

ExceptStep(k) ==
  /\ pc = "except" /\ kind = k
  /\ EmitsEvents
  /\ doneCount' = doneCount + 1 /\ doneOk' = FALSE
  /\ doneMsg' = ExceptMessage(_stop_requested, exc)
  /\ pc' = "finally" /\ UNCHANGED <<exc, cause>>
  /\ UNCHANGED <<reqVars, stopVars, tmpdir, coinit, posVars, isoVars, platVars,
                 cleanVars, copyHist, laterAfterStop, uiVars, calc>>

BurnExcept == ExceptStep("burn")
IsoExcept == ExceptStep("iso")

\* (variant: the staging directory is removed on the success path only)
FinallyStep_SuccessOnly(k) ==
  /\ pc = "finally" /\ kind = k
  /\ pc' = "ended"
  /\ doneAtCleanup' = <<doneOk, doneMsg>>
  /\ IF tmpdir /\ doneOk
        THEN rmtreeCount' = rmtreeCount + 1 /\ rmtreeErr' \in BOOLEAN
        ELSE UNCHANGED <<rmtreeCount, rmtreeErr>>
  /\ UNCHANGED <<reqVars, stopVars, exc, cause, tmpdir, coinit, posVars, isoVars, platVars,
                 doneVars, afterDone, copyHist, laterAfterStop, uiVars, calc>>

\* finally: (self._fmt = None;) CoUninitialize if coinit; shutil.rmtree(tmpdir,
\* ignore_errors=True) if tmpdir. Errors of both are swallowed.
FinallyStep(k) ==
  /\ pc = "finally" /\ kind = k
  /\ pc' = "ended"
  /\ doneAtCleanup' = <<doneOk, doneMsg>>
  /\ IF tmpdir
        THEN rmtreeCount' = rmtreeCount + 1 /\ rmtreeErr' \in BOOLEAN
        ELSE UNCHANGED <<rmtreeCount, rmtreeErr>>
  /\ UNCHANGED <<reqVars, stopVars, exc, cause, tmpdir, coinit, posVars, isoVars, platVars,
                 doneVars, afterDone, copyHist, laterAfterStop, uiVars, calc>>

BurnFinally == FinallyStep("burn")
IsoFinally == FinallyStep("iso")

\* IsoCreateWorker: image build as above, then expected_size = BlockSize * TotalBlocks
\* (0 when unreadable), log "Writing ISO file...", open(output_path, "wb").
IsoBuild ==
  /\ pc = "build" /\ kind = "iso"
  /\ EmitsEvents /\ LaterStage
  /\ \E out \in {"ok", "limit", "error"} :
        CASE out = "ok" ->
               /\ Goto("iso_write_check")
               /\ expected_size' \in 0..MaxImage /\ imgLen' \in 0..MaxImage
               /\ written' = 0 /\ UNCHANGED actual_size
          [] out = "limit" -> Raise(MsgFsiLimit, "failure") /\ UNCHANGED isoVars
          [] out = "error" -> Raise(MsgPlatform, "failure") /\ UNCHANGED isoVars
  /\ UNCHANGED <<reqVars, stopVars, tmpdir, coinit, posVars, platVars, doneVars,
                 cleanVars, copyHist, uiVars, calc>>

\* while True: if self._stop_requested: raise RuntimeError("Stopped by user")
IsoWriteCheck ==
  /\ pc = "iso_write_check" /\ kind = "iso"
  /\ LaterStage
  /\ IF _stop_requested THEN Raise(MsgStopped, "checkpoint") ELSE Goto("iso_write_io")
  /\ UNCHANGED <<reqVars, stopVars, tmpdir, coinit, posVars, isoVars, platVars, doneVars,
                 afterDone, cleanVars, copyHist, uiVars, calc>>

\* data = Read(chunk_size); if not data: break; f.write(data); written += len(data);
\* progress (when expected_size), _emit_progress_info()
IsoWriteIO ==
  /\ pc = "iso_write_io" /\ kind = "iso"
  /\ \E fail \in BOOLEAN :
        IF fail
          THEN Raise(MsgPlatform, "failure") /\ UNCHANGED <<written, afterDone>>
          ELSE IF written < imgLen
            THEN Goto("iso_write_check") /\ written' = written + 1 /\ EmitsEvents
            ELSE Goto("iso_size_check") /\ UNCHANGED <<written, afterDone>>
  /\ UNCHANGED <<reqVars, stopVars, tmpdir, coinit, posVars, expected_size, imgLen, actual_size,
                 platVars, doneVars, cleanVars, copyHist, laterAfterStop, uiVars, calc>>

\* if expected_size and written != expected_size: raise RuntimeError("ISO size mismatch")
IsoSizeCheck ==
  /\ pc = "iso_size_check" /\ kind = "iso"
  /\ IF expected_size # 0 /\ written # expected_size
        THEN Raise(MsgSizeMismatch, "failure")
        ELSE Goto(IF verify THEN "iso_verify_begin" ELSE "finish")
  /\ UNCHANGED <<reqVars, stopVars, tmpdir, coinit, posVars, isoVars, platVars, doneVars,
                 afterDone, cleanVars, copyHist, laterAfterStop, uiVars, calc>>

\* if self.verify: log "Verifying ISO...", status.emit("Verifying ISO...")
IsoVerifyBegin ==
  /\ pc = "iso_verify_begin" /\ kind = "iso"
  /\ Goto("iso_verify") /\ EmitsEvents
  /\ UNCHANGED <<reqVars, stopVars, tmpdir, coinit, posVars, isoVars, platVars, doneVars,
                 cleanVars, copyHist, laterAfterStop, uiVars, calc>>

\* actual_size = os.path.getsize(output_path); mismatch -> "Verify failed: size
\* mismatch"; else log "Verification completed."
IsoVerify ==
  /\ pc = "iso_verify" /\ kind = "iso"
  /\ \E fail \in BOOLEAN, size \in 0..MaxImage :
        IF fail
          THEN Raise(MsgPlatform, "failure") /\ UNCHANGED <<afterDone, actual_size>>
          ELSE /\ actual_size' = size
               /\ IF expected_size # 0 /\ size # expected_size
                    THEN Raise(MsgVerifyMismatch, "failure") /\ UNCHANGED afterDone
                    ELSE Goto("finish") /\ EmitsEvents
  /\ UNCHANGED <<reqVars, stopVars, tmpdir, coinit, posVars, expected_size, imgLen, written,
                 platVars, doneVars, cleanVars, copyHist, laterAfterStop, uiVars, calc>>

\* progress.emit(100), status.emit("Completed"), log, done.emit(True, ...)
IsoFinish ==
  /\ pc = "finish" /\ kind = "iso"
  /\ EmitsEvents
  /\ doneCount' = doneCount + 1 /\ doneOk' = TRUE /\ doneMsg' = MsgIsoCreated
  /\ pc' = "finally" /\ cause' = "ok" /\ UNCHANGED exc
  /\ UNCHANGED <<reqVars, stopVars, tmpdir, coinit, posVars, isoVars, platVars,
                 cleanVars, copyHist, laterAfterStop, uiVars, calc>>

NextRun ==
  \/ request_stop
  \/ BurnInit \/ BurnRecorder \/ BurnOpenIso \/ BurnMkdtemp \/ BurnStageLoop
  \/ _copy_tree_chunked \/ CopyChunkCheck \/ CopyChunkIO
  \/ BurnSizeWalk \/ BurnBuild \/ BurnSetup \/ OnUpdate \/ BurnWrite \/ BurnFinish
  \/ BurnExcept \/ BurnFinally
  \/ IsoInit \/ IsoMkdtemp \/ IsoStageLoop \/ IsoSizeWalk \/ IsoBuild
  \/ IsoWriteCheck \/ IsoWriteIO \/ IsoSizeCheck \/ IsoVerifyBegin \/ IsoVerify
  \/ IsoFinish \/ IsoExcept \/ IsoFinally

SpecRun == InitRun /\ [][NextRun]_vars

\* ---------------------------------------------------- coordinator: helpers
\* Handlers are functions from the window record s (and the file system e) to the
\* window record after the handler returned, so that a handler calling another
\* one is the composition of the two.
Max(a, b) == IF a >= b THEN a ELSE b
Range(q) == {q[k] : k \in 1..Len(q)}
Opt(c, r) == IF c THEN <<r>> ELSE <<>>
setEnabled(s, c, b) == [s EXCEPT !.enabled = IF b THEN @ \cup {c} ELSE @ \ {c}]
isEnabled(s, c) == c \in s.enabled
\* QThread.isRunning() of the thread a worker attribute refers to (0 is None)
isRunning(T, w) == w # 0 /\ T[w].alive
\* the slot a new thread object takes, 0 when the bound on threads is reached
FreeSlot(T) ==
  IF \E i \in DOMAIN T : ~T[i].used
    THEN CHOOSE i \in DOMAIN T : ~T[i].used /\ \A k \in DOMAIN T : k < i => T[k].used
    ELSE 0
NewThread(uid) == [FreeThread EXCEPT !.used = TRUE, !.alive = TRUE, !.uid = uid]
NoCache == [has |-> FALSE, entries |-> <<>>]
isfile(e) == e.isoFile # -1
\* os.path.getsize of the ISO file, -1 where it raises OSError: isoFile is -1 when
\* there is no such file and -2 when the file is there but its size cannot be read
getsize(e) == IF e.isoFile >= 0 THEN e.isoFile ELSE -1

\* ------------------------------------------------- readiness (main_window.py)
_estimate_image_size_MinOnly(s, size) ==
  IF size <= 0 THEN 0
  ELSE IF s.use_iso /\ ~s.create_iso THEN size
  ELSE IF s.create_iso THEN size
  ELSE size + OverheadMin

_estimate_image_size_DropsLargeOverhead(s, size) ==
  IF size <= 0 THEN 0
  ELSE IF s.use_iso /\ ~s.create_iso THEN size
  ELSE IF s.create_iso THEN size
  ELSE IF 7 * (size \div 100) + (7 * (size % 100)) \div 100 > OverheadMin THEN size
  ELSE size + OverheadMin

_estimate_image_size(s, size) ==
  IF size <= 0 THEN 0
  ELSE IF s.use_iso /\ ~s.create_iso THEN size
  ELSE IF s.create_iso THEN size
  ELSE size + Max(OverheadMin, 7 * (size \div 100) + (7 * (size % 100)) \div 100)

\* Byte counts go beyond 2^31 (a file of 4 GiB, a 25 GB disc): where they do, a
\* count n is held as gib * 1024**3 + b with 0 <= b < 1024**3, None as NoneBytes.
GiB == 1073741824
Wide(g, b) == [gib |-> g, b |-> b]
NoneBytes == Wide(-1, 0)
WideOf(n) == IF n < 0 THEN NoneBytes ELSE Wide(n \div GiB, n % GiB)
AtLeast(x, y) == x.gib > y.gib \/ (x.gib = y.gib /\ x.b >= y.b)
Greater(x, y) == x.gib > y.gib \/ (x.gib = y.gib /\ x.b > y.b)
\* int(x * 0.0025): the product truncated, which is x // 400 for byte counts
Int0025(x) == x.gib * (GiB \div 400) + (x.gib * (GiB % 400) + x.b) \div 400
\* max(0, x - h) for a headroom h below 2^31
MinusOrZero(x, h) ==
  LET hw == WideOf(h)
  IN IF ~AtLeast(x, hw) THEN Wide(0, 0)
     ELSE IF x.b >= hw.b THEN Wide(x.gib - hw.gib, x.b - hw.b)
     ELSE Wide(x.gib - hw.gib - 1, x.b + (GiB - hw.b))

_is_over_capacity_HeadroomAdded(_media_capacity_bytes, size) ==
  IF _media_capacity_bytes = NoneBytes \/ _media_capacity_bytes = Wide(0, 0) THEN FALSE
  ELSE LET headroom == _capacity_headroom_bytes + Int0025(_media_capacity_bytes)
       IN Greater(size, MinusOrZero(_media_capacity_bytes, headroom))

_is_over_capacity(_media_capacity_bytes, size) ==
  IF _media_capacity_bytes = NoneBytes \/ _media_capacity_bytes = Wide(0, 0) THEN FALSE
  ELSE LET headroom == Max(_capacity_headroom_bytes, Int0025(_media_capacity_bytes))
       IN Greater(size, MinusOrZero(_media_capacity_bytes, headroom))

reasons_NoPendingSize(s, e) ==
  LET create_iso == s.create_iso
      use_iso_input == s.use_iso /\ ~create_iso
      noIso == ~s._iso_path \/ ~isfile(e)
      current_size == IF use_iso_input THEN (IF noIso \/ getsize(e) < 0 THEN 0 ELSE getsize(e))
                                       ELSE s._total_size
      inputs == IF use_iso_input
                  THEN Opt(noIso, "select ISO")
                         \o Opt(~noIso /\ getsize(e) < 0, "calculating sizes")
                  ELSE Opt(s.list = <<>>, "add files/folders")
                         \o <<>>
      target == IF create_iso
                  THEN Opt(~s.out_text, "select ISO output")
                  ELSE Opt(s.drive = "none", "select a drive")
                         \o Opt(~s._media_blank, "no blank/unsupported disc")
                         \o Opt(s._media_capacity_bytes > 0
                                  /\ _is_over_capacity(
                                       WideOf(s._media_capacity_bytes),
                                       WideOf(_estimate_image_size(s, current_size))),
                                "over capacity")
  IN inputs \o target

reasons_DriveInEveryMode(s, e) ==
  LET create_iso == s.create_iso
      use_iso_input == s.use_iso /\ ~create_iso
      noIso == ~s._iso_path \/ ~isfile(e)
      current_size == IF use_iso_input THEN (IF noIso \/ getsize(e) < 0 THEN 0 ELSE getsize(e))
                                       ELSE s._total_size
      inputs == IF use_iso_input
                  THEN Opt(noIso, "select ISO")
                         \o Opt(~noIso /\ getsize(e) < 0, "calculating sizes")
                  ELSE Opt(s.list = <<>>, "add files/folders")
                         \o Opt(s._pending_size # {}, "calculating sizes")
      target == IF create_iso /\ s.drive # "none"
                  THEN Opt(~s.out_text, "select ISO output")
                  ELSE Opt(s.drive = "none", "select a drive")
                         \o Opt(~s._media_blank, "no blank/unsupported disc")
                         \o Opt(s._media_capacity_bytes > 0
                                  /\ _is_over_capacity(
                                       WideOf(s._media_capacity_bytes),
                                       WideOf(_estimate_image_size(s, current_size))),
                                "over capacity")
  IN inputs \o target

\* the list `reasons` that _update_burn_enabled builds when no job is running
reasons(s, e) ==
  LET create_iso == s.create_iso
      use_iso_input == s.use_iso /\ ~create_iso
      noIso == ~s._iso_path \/ ~isfile(e)
      current_size == IF use_iso_input THEN (IF noIso \/ getsize(e) < 0 THEN 0 ELSE getsize(e))
                                       ELSE s._total_size
      inputs == IF use_iso_input
                  THEN Opt(noIso, "select ISO")
                         \o Opt(~noIso /\ getsize(e) < 0, "calculating sizes")
                  ELSE Opt(s.list = <<>>, "add files/folders")
                         \o Opt(s._pending_size # {}, "calculating sizes")
      target == IF create_iso
                  THEN Opt(~s.out_text, "select ISO output")
                  ELSE Opt(s.drive = "none", "select a drive")
                         \o Opt(~s._media_blank, "no blank/unsupported disc")
                         \o Opt(s._media_capacity_bytes > 0
                                  /\ _is_over_capacity(
                                       WideOf(s._media_capacity_bytes),
                                       WideOf(_estimate_image_size(s, current_size))),
                                "over capacity")
  IN inputs \o target

_update_burn_enabled(s, e) ==
  IF s._burning
    THEN [setEnabled(s, "btn_burn", FALSE) EXCEPT
            !.status_label = <<IF s._active_job = "iso" THEN "Processing..." ELSE "Burning...">>]
    ELSE LET r == reasons(s, e)
             size == IF s.use_iso /\ ~s.create_iso
                       THEN (IF s._iso_path /\ isfile(e) THEN getsize(e) ELSE -1)
                       ELSE s._iso_size
         IN [setEnabled(s, "btn_burn", r = <<>>) EXCEPT
               !._iso_size = size,
               !.status_label = IF r = <<>> THEN <<"Ready">> ELSE <<"Not Ready">> \o r]

\* No list item stays selected between two handlers: selecting and removing an item
\* is one user action (remove_selected below).
_update_list_buttons_and_burn_state(s, e) ==
  LET s1 == setEnabled(s, "btn_clear", s.list # <<>>)
      s2 == setEnabled(s1, "btn_remove", FALSE)
      s3 == setEnabled(s2, "btn_clear_iso", isEnabled(s2, "btn_browse_iso") /\ s._iso_path)
  IN _update_burn_enabled(s3, e)

_set_ui_enabled(s, e, enabled) ==
  LET create_iso == s.create_iso
      use_iso_input == s.use_iso
      on == {c \in Controls \ {"btn_stop", "btn_burn"} :
               CASE c = "btn_remove" -> FALSE
                 [] c = "btn_clear" -> enabled /\ s.list # <<>>
                 [] c \in {"chk_use_iso_input", "drive", "write_speed"} -> enabled /\ ~create_iso
                 [] c \in {"btn_browse_iso", "iso_path_edit"} ->
                      enabled /\ use_iso_input /\ ~create_iso
                 [] c = "btn_clear_iso" ->
                      enabled /\ use_iso_input /\ ~create_iso /\ s._iso_path
                 [] c \in {"iso_out_path_edit", "btn_browse_iso_out"} -> enabled /\ create_iso
                 [] c = "act_eject" -> enabled /\ ~s._burning
                 [] OTHER -> enabled}
      s1 == [s EXCEPT !.enabled = IF enabled THEN on \cup (@ \cap {"btn_burn"})
                                             ELSE on \cup {"btn_stop"}]
  IN _update_burn_enabled(s1, e)

_on_action_mode_changed(s, e) ==
  LET create_iso == s.create_iso
      ui_enabled == isEnabled(s, "btn_refresh")
      use_iso == s.use_iso /\ ~create_iso
      on == {c \in Controls :
               \/ c = "chk_use_iso_input" /\ ui_enabled /\ ~create_iso
               \/ c \in {"iso_path_edit", "btn_browse_iso"} /\ ui_enabled /\ use_iso
               \/ c = "btn_clear_iso" /\ ui_enabled /\ use_iso /\ s._iso_path
               \/ c \in {"iso_out_path_edit", "btn_browse_iso_out"} /\ ui_enabled /\ create_iso}
      touched == {"chk_use_iso_input", "iso_path_edit", "btn_browse_iso", "btn_clear_iso",
                  "iso_out_path_edit", "btn_browse_iso_out"}
  IN _update_list_buttons_and_burn_state([s EXCEPT !.enabled = (@ \ touched) \cup on], e)

\* ------------------------------------------------ pollers (main_window.py)
_populate_write_speeds(s) ==
  LET uid == s.drive
      s0 == [s EXCEPT !.write_speed = <<>>]
      i == FreeSlot(s.speedT)
  IN IF uid = "none" THEN s0
     ELSE IF s._speed_cache[uid].has
       THEN [s0 EXCEPT !.write_speed = s._speed_cache[uid].entries]
     ELSE IF isRunning(s.speedT, s._speed_worker) THEN s0
     ELSE IF i = 0 THEN [s0 EXCEPT !.ovf = TRUE]
     ELSE [s0 EXCEPT !._speed_worker = i, !.speedT[i] = NewThread(uid)]

_on_speed_result(s, uid, entries) ==
  IF uid # s.drive THEN s
  ELSE [s EXCEPT !._speed_cache[uid] = [has |-> TRUE, entries |-> entries],
                 !.write_speed = entries]

_on_speed_error(s, uid) ==
  IF uid # s.drive THEN s
  ELSE [s EXCEPT !._speed_cache[uid] = NoCache]

\* update_media_status(check_writers=False), the only way the window calls it
update_media_status(s, e) ==
  LET uid == s.drive
      prev_uid == IF s._last_media_state # <<>> THEN s._last_media_state[1] ELSE "none"
      s1 == IF prev_uid # "none" /\ prev_uid # uid
              THEN [s EXCEPT !._last_media_state = <<>>, !._speed_cache[prev_uid] = NoCache]
              ELSE s
      i == FreeSlot(s1.mediaT)
  IN IF uid = "none"
       THEN _update_burn_enabled([s1 EXCEPT !._media_blank = FALSE,
                                            !._media_capacity_bytes = -1,
                                            !._last_media_state = <<>>], e)
     ELSE IF isRunning(s1.mediaT, s1._media_worker) THEN s1
     ELSE IF i = 0 THEN [s1 EXCEPT !.ovf = TRUE]
     ELSE [s1 EXCEPT !._media_worker = i, !.mediaT[i] = NewThread(uid)]

_on_media_status_result(s, e, uid, blank, supported, capacity) ==
  IF uid # s.drive THEN s
  ELSE LET state == <<uid, blank, supported, capacity>>
           s1 == [s EXCEPT !._media_capacity_bytes = capacity,
                           !._media_blank = blank /\ supported]
           s2 == IF state # s._last_media_state
                   THEN [s1 EXCEPT !._speed_cache[uid] = NoCache, !._last_media_state = state]
                   ELSE s1
       IN _update_burn_enabled(_populate_write_speeds(s2), e)

_on_media_status_error(s, e) ==
  LET s1 == [s EXCEPT !._media_blank = FALSE, !._media_capacity_bytes = -1]
      s2 == IF s.drive # "none" THEN [s1 EXCEPT !._speed_cache[s.drive] = NoCache] ELSE s1
  IN _update_burn_enabled(s2, e)

\* QComboBox: the first item added to an empty combo box becomes the current one
\* (silently here, the signals being blocked); setCurrentIndex emits
\* currentIndexChanged, wired to update_media_status, only when the index changes.
_set_drive_list(s, e, writers) ==
  LET current_uid == s.drive
      first == IF writers = <<>> THEN "none" ELSE writers[1]
      s1 == [s EXCEPT !.items = writers, !.drive = first,
                      !._speed_cache = [u \in Recorders |-> NoCache]]
      found == current_uid # "none" /\ current_uid \in Range(writers)
  IN IF found
       THEN IF current_uid = first THEN s1
            ELSE update_media_status([s1 EXCEPT !.drive = current_uid], e)
       ELSE _populate_write_speeds(s1)

refresh_writers(s) ==
  LET i == FreeSlot(s.writerT)
  IN IF isRunning(s.writerT, s._writer_worker) THEN s
     ELSE IF i = 0 THEN [s EXCEPT !.ovf = TRUE]
     ELSE [setEnabled(s, "btn_refresh", FALSE) EXCEPT
             !._writer_worker = i, !.writerT[i] = NewThread("none")]

_on_writer_worker_finished(s) ==
  [setEnabled(s, "btn_refresh", TRUE) EXCEPT !._writer_worker = 0]

_on_writers_result(s, e, writers, err) ==
  IF err THEN s
  ELSE LET new_uids == Range(writers)
           s1 == IF new_uids # s._known_writers
                   THEN _set_drive_list([s EXCEPT !._known_writers = new_uids], e, writers)
                   ELSE s
       IN update_media_status(s1, e)

\* ---------------------------------------------- path list and size workers
RemoveFrom(q, x) == SelectSeq(q, LAMBDA y : y # x)

\* sizeWorkersAlive is history, not program state: the SizeWorker threads started
\* whose finished signal was not delivered yet.
_process_next_size_worker_NoGuard(s) ==
  IF s._size_queue = <<>> THEN s
  ELSE [s EXCEPT !._current_size_worker = [phase |-> "run", path |-> Head(s._size_queue),
                                           size |-> 0],
                 !._size_queue = Tail(@),
                 !.sizeWorkersAlive = @ + 1]

_process_next_size_worker(s) ==
  IF s._current_size_worker.phase # "none" \/ s._size_queue = <<>> THEN s
  ELSE [s EXCEPT !._current_size_worker = [phase |-> "run", path |-> Head(s._size_queue),
                                           size |-> 0],
                 !._size_queue = Tail(@),
                 !.sizeWorkersAlive = @ + 1]

_add_path(s, p) ==
  IF p \in Range(s.list) THEN s
  ELSE _process_next_size_worker(
         [s EXCEPT !._path_sizes[p] = 0, !._pending_size = @ \cup {p},
                   !.list = Append(@, p), !._size_queue = Append(@, p)])

add_files(s, e, p) == _update_list_buttons_and_burn_state(_add_path(s, p), e)

remove_selected(s, e, p) ==
  LET size == IF s._path_sizes[p] = -1 THEN 0 ELSE s._path_sizes[p]
  IN _update_list_buttons_and_burn_state(
       [s EXCEPT !.list = RemoveFrom(@, p), !._pending_size = @ \ {p},
                 !._size_queue = RemoveFrom(@, p), !._path_sizes[p] = -1,
                 !._total_size = Max(0, @ - size)], e)

_clear_list(s, e) ==
  _update_list_buttons_and_burn_state(
    [s EXCEPT !.list = <<>>, !._path_sizes = [p \in Paths |-> -1], !._pending_size = {},
              !._size_queue = <<>>, !._total_size = 0], e)

\* (variant: the size is added without taking the recorded one out)
_on_size_computed_NoPrev(s, e, path, size) ==
  IF s._path_sizes[path] = -1 THEN [s EXCEPT !._pending_size = @ \ {path}]
  ELSE _update_burn_enabled(
         [s EXCEPT !._total_size = @ + Max(0, size),
                   !._path_sizes[path] = size, !._pending_size = @ \ {path}], e)

_on_size_computed(s, e, path, size) ==
  IF s._path_sizes[path] = -1 THEN [s EXCEPT !._pending_size = @ \ {path}]
  ELSE _update_burn_enabled(
         [s EXCEPT !._total_size = @ + Max(0, size) - s._path_sizes[path],
                   !._path_sizes[path] = size, !._pending_size = @ \ {path}], e)

\* (variant: the next queued path is not started)
_on_size_worker_finished_NoNext(s) ==
  [s EXCEPT !._current_size_worker.phase = "none", !.sizeWorkersAlive = @ - 1]

_on_size_worker_finished(s) ==
  _process_next_size_worker([s EXCEPT !._current_size_worker.phase = "none",
                                      !.sizeWorkersAlive = @ - 1])

\* ----------------------------------------------------- ISO input and output
_select_iso_file(s, e) ==
  _update_burn_enabled([s EXCEPT !._iso_path = TRUE, !._iso_size = e.isoFile], e)

_clear_iso_file(s, e) ==
  _update_burn_enabled([s EXCEPT !._iso_path = FALSE, !._iso_size = -1], e)

_select_iso_output(s) == [s EXCEPT !.out_text = TRUE, !._iso_out_seen = FALSE]

\* ------------------------------------------------------------- job engine
PushModal(s, k, msg) == [s EXCEPT !.modals = Append(@, [kind |-> k, msg |-> msg])]
PopModal(s) == [s EXCEPT !.modals = SubSeq(@, 1, Len(@) - 1)]

\* start_burn from self.log.clear() on: lock the UI, mark the job, start the worker
StartSection(s, e) ==
  LET s1 == _set_ui_enabled([s EXCEPT !.status = "Preparing..."], e, FALSE)
      s2 == _update_burn_enabled([s1 EXCEPT !._burning = TRUE], e)
      j == FreeSlot(s2.jobs)
      k == IF s.create_iso THEN "iso" ELSE "burn"
  IN IF j = 0 THEN [s2 EXCEPT !.ovf = TRUE]
     ELSE [s2 EXCEPT !._active_job = k, !.worker = j,
                     !.jobs[j] = [FreeJob EXCEPT !.used = TRUE, !.alive = TRUE, !.kind = k]]

start_burn(s, e) ==
  IF isRunning(s.jobs, s.worker) THEN s
  ELSE IF s.create_iso
    THEN IF s.list = <<>> \/ s._pending_size # {} THEN s
         ELSE IF ~s.out_text
                THEN PushModal(s, "warning", "Please choose an ISO output path first.")
         ELSE IF ~e.outExists THEN StartSection([s EXCEPT !._iso_out_seen = TRUE], e)
         ELSE IF s._iso_out_seen THEN PushModal(s, "overwrite", "Overwrite it?")
         ELSE StartSection([s EXCEPT !._iso_out_seen = TRUE], e)
    ELSE IF s.use_iso /\ (~s._iso_path \/ ~isfile(e)) THEN s
         ELSE IF ~s.use_iso /\ (s.list = <<>> \/ s._pending_size # {}) THEN s
         ELSE IF s.drive = "none" THEN s
         ELSE StartSection(s, e)

\* the user answered No to the overwrite question
DeclineOverwrite(s, e) ==
  _update_burn_enabled(
    [_set_ui_enabled(s, e, TRUE) EXCEPT !._burning = FALSE, !._active_job = "none"], e)

\* worker.request_stop(); run() reads the flag for the last time before done.emit
request_stop_of(t) == IF t.res = "none" THEN [t EXCEPT !.stop = TRUE] ELSE t

stop_burn(s) ==
  IF isRunning(s.jobs, s.worker)
    THEN [setEnabled(s, "btn_stop", FALSE) EXCEPT
            !.jobs[s.worker] = request_stop_of(@), !.status = "Stopping..."]
    ELSE s

\* both done handlers, after the dialog (if any) was closed
DoneTail(s, e) == _update_burn_enabled([s EXCEPT !.status = "Idle"], e)

_on_done_KeepsLock(s, e, ok, msg) ==
  LET s1 == [s EXCEPT !._active_job = "none", !._burning = FALSE]
      s2 == [s1 EXCEPT !.worker = 0, !.doneKind = "burn", !.doneOk = ok, !.doneMsg = msg,
                       !.doneDialog = "none"]
      st == IF msg # MsgStopped THEN "Failed" ELSE "Stopped"
  IN IF ok
       THEN PushModal([s2 EXCEPT !.status = "Completed", !.doneStatus = "Completed"],
                      "eject", "Eject disc?")
     ELSE IF msg # MsgStopped
       THEN PushModal([s2 EXCEPT !.status = st, !.doneStatus = st, !.doneDialog = msg],
                      "critical", msg)
     ELSE DoneTail([s2 EXCEPT !.status = st, !.doneStatus = st], e)

_on_done(s, e, ok, msg) ==
  LET s1 == _set_ui_enabled([s EXCEPT !._active_job = "none", !._burning = FALSE], e, TRUE)
      s2 == [s1 EXCEPT !.worker = 0, !.doneKind = "burn", !.doneOk = ok, !.doneMsg = msg,
                       !.doneDialog = "none"]
      st == IF msg # MsgStopped THEN "Failed" ELSE "Stopped"
  IN IF ok
       THEN PushModal([s2 EXCEPT !.status = "Completed", !.doneStatus = "Completed"],
                      "eject", "Eject disc?")
     ELSE IF msg # MsgStopped
       THEN PushModal([s2 EXCEPT !.status = st, !.doneStatus = st, !.doneDialog = msg],
                      "critical", msg)
     ELSE DoneTail([s2 EXCEPT !.status = st, !.doneStatus = st], e)

_on_iso_done(s, e, ok, msg) ==
  LET s1 == _set_ui_enabled([s EXCEPT !._active_job = "none", !._burning = FALSE], e, TRUE)
      s2 == [s1 EXCEPT !.worker = 0, !.doneKind = "iso", !.doneOk = ok, !.doneMsg = msg,
                       !.doneDialog = "none"]
  IN IF ok
       THEN PushModal([s2 EXCEPT !.status = "ISO created", !.doneStatus = "ISO created"],
                      "iso_done", "ISO creation completed.")
       ELSE PushModal([s2 EXCEPT !.status = "Failed", !.doneStatus = "Failed",
                                 !.doneDialog = "ISO creation failed."],
                      "critical", "ISO creation failed.")

\* closeEvent after the user answered Yes to "Stop and exit after it halts?":
\* _pending_close, finished connected to close() and request_stop() (both inside
\* try / except: they fail without effect when worker was set to None meanwhile),
\* status "Stopping..."; the event is ignored
ConfirmExit(s) ==
  LET s1 == [s EXCEPT !._pending_close = TRUE, !.status = "Stopping..."]
  IN IF s.worker = 0 THEN s1
     ELSE [s1 EXCEPT !.jobs[s.worker] = [request_stop_of(@) EXCEPT !.closeConn = TRUE]]

\* closeEvent up to the question it asks: ignored while worker is set and running
\* (asking first unless _pending_close), accepted otherwise
closeEvent(s) ==
  IF isRunning(s.jobs, s.worker)
    THEN IF ~s._pending_close
           THEN PushModal(s, "exit", "A burn is in progress. Stop and exit after it halts?")
           ELSE s
    ELSE [s EXCEPT !.closed = TRUE]

\* a modal dialog returns: the handler that opened it runs to its end
CloseModal(s, e, yes) ==
  LET m == s.modals[Len(s.modals)]
      s1 == PopModal(s)
  IN CASE m.kind = "warning" -> s1
       [] m.kind = "overwrite" -> IF yes THEN StartSection(s1, e) ELSE DeclineOverwrite(s1, e)
       [] m.kind = "exit" -> IF yes THEN ConfirmExit(s1) ELSE s1
       [] OTHER -> DoneTail(s1, e)

\* ----------------------------------------------------- coordinator: steps
\* One step of the main thread's event loop (a handler run to its end or up to the
\* modal dialog it opens), of a worker thread, or of the file system. Nothing of
\* the window runs once it is closed.
Step(s) == ~mw.closed /\ mw' = s /\ ~s.ovf /\ UNCHANGED <<env, runVars, calc>>
\* a modal dialog blocks user input, not timers and not queued signals
NoModal == mw.modals = <<>>
Clickable(c) == NoModal /\ isEnabled(mw, c)

ClickBurn == Clickable("btn_burn") /\ Step(start_burn(mw, env))
ClickStop == Clickable("btn_stop") /\ Step(stop_burn(mw))
ClickRefresh == Clickable("btn_refresh") /\ Step(refresh_writers(mw))

SelectDrive ==
  /\ Clickable("drive")
  /\ \E u \in Range(mw.items) \ {mw.drive} :
        Step(update_media_status([mw EXCEPT !.drive = u], env))

ToggleMode ==
  /\ Clickable(IF mw.create_iso THEN "action_burn_disc" ELSE "action_create_iso")
  /\ Step(_on_action_mode_changed([mw EXCEPT !.create_iso = ~@], env))

_on_use_iso_toggled ==
  /\ Clickable("chk_use_iso_input")
  /\ Step(_on_action_mode_changed([mw EXCEPT !.use_iso = ~@], env))

SelectIsoFile == Clickable("btn_browse_iso") /\ isfile(env) /\ Step(_select_iso_file(mw, env))
ClearIsoFile == Clickable("btn_clear_iso") /\ Step(_clear_iso_file(mw, env))
SelectIsoOutput == Clickable("btn_browse_iso_out") /\ Step(_select_iso_output(mw))
\* typing into (or emptying) the output path field: no handler is wired to it
EditIsoOutput == Clickable("iso_out_path_edit") /\ Step([mw EXCEPT !.out_text = ~@])

AddFiles == Clickable("btn_add_files") /\ \E p \in env.paths : Step(add_files(mw, env, p))
\* the list widget accepts drops whatever the lock state of the buttons
_on_drop_add == NoModal /\ \E p \in env.paths : Step(add_files(mw, env, p))
RemoveSelected ==
  /\ Clickable("btn_add_files")
  /\ \E p \in Range(mw.list) : Step(remove_selected(mw, env, p))
ClearList == Clickable("btn_clear") /\ Step(_clear_list(mw, env))

ModalReturns == ~NoModal /\ \E yes \in BOOLEAN : Step(CloseModal(mw, env, yes))

\* media_timer (4 s) and writer_timer (15 s)
MediaTimer ==
  /\ mw' = update_media_status(mw, env) /\ ~mw'.ovf
  /\ UNCHANGED <<env, runVars, calc>>
WriterTimer ==
  /\ mw' = refresh_writers(mw) /\ ~mw'.ovf
  /\ UNCHANGED <<env, runVars, calc>>

\* ---- worker threads
\* A poller thread emits one signal and ends (its finally block only releases COM).
\* What it reports is what the platform returns to it: any of the possible answers,
\* drawn when the queued signal is delivered.
Emitted(T, i) == [T EXCEPT ![i].res = "queued", ![i].alive = FALSE]
CanEmit(T, i) == T[i].alive /\ T[i].res = "none"
CanEnd(T, i) == T[i].alive /\ T[i].res # "none"
CanDeliver(T, i) == T[i].res = "queued"
\* finished is queued behind the result signal of the same thread
CanFinish(T, i) == T[i].used /\ ~T[i].alive /\ T[i].res = "done"

WriterLookupWorker ==
  \E i \in 1..MaxPollers :
    CanEmit(mw.writerT, i) /\ Step([mw EXCEPT !.writerT = Emitted(@, i)])
DeliverWritersResult ==
  \E i \in 1..MaxPollers :
    /\ CanDeliver(mw.writerT, i)
    /\ \E r \in env.writers :
         Step(_on_writers_result([mw EXCEPT !.writerT[i].res = "done"], env,
                                 r.writers, r.err))
DeliverWriterFinished ==
  \E i \in 1..MaxPollers :
    /\ CanFinish(mw.writerT, i)
    /\ Step(_on_writer_worker_finished([mw EXCEPT !.writerT[i] = FreeThread]))

MediaStatusWorker ==
  \E i \in 1..MaxPollers :
    CanEmit(mw.mediaT, i) /\ Step([mw EXCEPT !.mediaT = Emitted(@, i)])
DeliverMediaResult ==
  \E i \in 1..MaxPollers :
    /\ CanDeliver(mw.mediaT, i)
    /\ LET t == mw.mediaT[i]
           s == [mw EXCEPT !.mediaT[i].res = "done"]
       IN \E r \in env.media :
            IF r.error THEN Step(_on_media_status_error(s, env))
            ELSE Step(_on_media_status_result(s, env, t.uid, r.blank, r.supported,
                                              r.capacity))
DeliverMediaFinished ==
  \E i \in 1..MaxPollers :
    /\ CanFinish(mw.mediaT, i)
    /\ Step([mw EXCEPT !.mediaT[i] = FreeThread, !._media_worker = 0])

SpeedLookupWorker ==
  \E i \in 1..MaxPollers :
    CanEmit(mw.speedT, i) /\ Step([mw EXCEPT !.speedT = Emitted(@, i)])
DeliverSpeedResult ==
  \E i \in 1..MaxPollers :
    /\ CanDeliver(mw.speedT, i)
    /\ LET t == mw.speedT[i]
           s == [mw EXCEPT !.speedT[i].res = "done"]
       IN \E r \in env.speeds :
            IF r.error THEN Step(_on_speed_error(s, t.uid))
            ELSE Step(_on_speed_result(s, t.uid, r.entries))
DeliverSpeedFinished ==
  \E i \in 1..MaxPollers :
    /\ CanFinish(mw.speedT, i)
    /\ Step([mw EXCEPT !.speedT[i] = FreeThread, !._speed_worker = 0])

SizeWorker ==
  /\ mw._current_size_worker.phase = "run"
  /\ \E size \in PathSizes :
       Step([mw EXCEPT !._current_size_worker.phase = "result",
                       !._current_size_worker.size = size])
DeliverSizeComputed ==
  /\ mw._current_size_worker.phase = "result"
  /\ Step(_on_size_computed([mw EXCEPT !._current_size_worker.phase = "finished"], env,
                            mw._current_size_worker.path, mw._current_size_worker.size))
DeliverSizeFinished ==
  /\ mw._current_size_worker.phase = "finished"
  /\ Step(_on_size_worker_finished(mw))

\* a job worker's run() reaches its done.emit: with success, or through the except
\* handler, whose message ExceptMessage picks. The image file exists from the
\* moment IsoCreateWorker opened it for writing.
JobRun ==
  \E j \in 1..MaxJobs :
    LET t == mw.jobs[j] IN
    /\ CanEmit(mw.jobs, j)
    /\ \E ok \in BOOLEAN, wrote \in BOOLEAN :
         LET msg == IF ~ok THEN ExceptMessage(t.stop, MsgPlatform)
                    ELSE IF t.kind = "iso" THEN MsgIsoCreated ELSE MsgCompleted
         IN /\ mw' = [mw EXCEPT !.jobs[j].res = "queued", !.jobs[j].ok = ok,
                                !.jobs[j].msg = msg, !.jobs[j].stop = FALSE]
            /\ (ok /\ t.kind = "iso") => wrote
            /\ (t.kind # "iso") => ~wrote
            /\ env' = [env EXCEPT !.outExists = @ \/ wrote]
            /\ UNCHANGED <<runVars, calc>>
\* the finally block is over and the thread ends
JobThreadEnds ==
  \E j \in 1..MaxJobs :
    /\ CanEnd(mw.jobs, j)
    /\ Step([mw EXCEPT !.jobs[j] = IF @.res = "done" THEN FreeJob
                                    ELSE [@ EXCEPT !.alive = FALSE],
                        !.closeQueued = @ \/ mw.jobs[j].closeConn])
DeliverDone ==
  \E j \in 1..MaxJobs :
    /\ CanDeliver(mw.jobs, j)
    /\ LET t == mw.jobs[j]
           s == [mw EXCEPT !.jobs[j] = IF t.alive
                                         THEN [FreeJob EXCEPT !.used = TRUE, !.alive = TRUE,
                                                              !.res = "done", !.kind = t.kind,
                                                              !.closeConn = t.closeConn]
                                         ELSE FreeJob]
       IN IF t.kind = "iso" THEN Step(_on_iso_done(s, env, t.ok, t.msg))
                            ELSE Step(_on_done(s, env, t.ok, t.msg))

\* the ISO file chosen as input appears, disappears or changes size on disk
IsoFileChanges ==
  /\ \E v \in IsoFileStates \ {env.isoFile} : env' = [env EXCEPT !.isoFile = v]
  /\ UNCHANGED <<mw, runVars, calc>>

\* ------------------------------------------------------------ specifications
RunIdle ==
  RunStart([kind |-> "burn", iso_path |-> "file", source_paths |-> <<>>, verify |-> FALSE])

Pollers ==
  \/ MediaTimer \/ WriterTimer
  \/ WriterLookupWorker \/ DeliverWritersResult \/ DeliverWriterFinished
  \/ MediaStatusWorker \/ DeliverMediaResult \/ DeliverMediaFinished
  \/ SpeedLookupWorker \/ DeliverSpeedResult \/ DeliverSpeedFinished

PathList ==
  \/ AddFiles \/ _on_drop_add \/ RemoveSelected \/ ClearList
  \/ SizeWorker \/ DeliverSizeComputed \/ DeliverSizeFinished

JobEngine ==
  \/ ClickBurn \/ ClickStop \/ ModalReturns \/ JobRun \/ JobThreadEnds \/ DeliverDone

\* Spec: files and folders are burned to disc on a machine with one recorder.
Init == RunIdle /\ mw = InitMw /\ env = InitEnv /\ calc = NoCall

Next == JobEngine \/ PathList \/ Pollers \/ ClickRefresh

Spec == Init /\ [][Next]_vars

\* SpecCreateIso: an ISO file is created from files and folders, no recorder attached.
InitCreateIso == RunIdle /\ mw = InitMw /\ env = EnvNoRecorder /\ calc = NoCall

NextCreateIso ==
  \/ JobEngine \/ PathList
  \/ ToggleMode \/ SelectIsoOutput \/ EditIsoOutput
  \/ MediaTimer \/ WriterTimer \/ ClickRefresh
  \/ WriterLookupWorker \/ DeliverWritersResult \/ DeliverWriterFinished

SpecCreateIso == InitCreateIso /\ [][NextCreateIso]_vars

\* SpecBurnIso: an existing ISO file is burned to disc.
NextBurnIso ==
  \/ JobEngine \/ Pollers \/ ClickRefresh
  \/ _on_use_iso_toggled \/ SelectIsoFile \/ ClearIsoFile \/ IsoFileChanges

SpecBurnIso == Init /\ [][NextBurnIso]_vars

\* SpecPoll: the pollers alone, while recorders and discs come and go.
InitPoll == RunIdle /\ mw = InitMw /\ env = EnvTwoRecorders /\ calc = NoCall

NextPoll == Pollers \/ ClickRefresh \/ SelectDrive

SpecPoll == InitPoll /\ [][NextPoll]_vars

\* SpecTwoDrives: files are burned on a machine with two recorders, the user
\* switching between them.
EnvTwoDrives == [InitEnv EXCEPT !.writers = {WritersFound(<<"A", "B">>)}]

InitTwoDrives == RunIdle /\ mw = InitMw /\ env = EnvTwoDrives /\ calc = NoCall

NextTwoDrives ==
  \/ JobEngine \/ SelectDrive \/ MediaTimer
  \/ WriterLookupWorker \/ DeliverWritersResult \/ DeliverWriterFinished
  \/ MediaStatusWorker \/ DeliverMediaResult \/ DeliverMediaFinished
  \/ SpeedLookupWorker \/ DeliverSpeedResult \/ DeliverSpeedFinished
  \/ AddFiles \/ SizeWorker \/ DeliverSizeComputed \/ DeliverSizeFinished

SpecTwoDrives == InitTwoDrives /\ [][NextTwoDrives]_vars

\* SpecPaths: the path list and its size workers, three paths to pick from.
EnvPaths == [InitEnv EXCEPT !.paths = Paths]

InitPaths == RunIdle /\ mw = InitMw /\ env = EnvPaths /\ calc = NoCall

SpecPaths == InitPaths /\ [][PathList]_vars

\* ------------------------------------------- file system mask (workers.py)
FS_ISO9660 == 1
FS_JOLIET == 2
FS_UDF == 4
\* mask & bit, for a bit that is a power of two
HasBit(mask, bit) == (mask \div bit) % 2 = 1

_max_iso_file_bytes_Plus1 == Wide(4, 1)
_max_iso_file_bytes == Wide(4, 0)

\* self.file_system_mask as __init__ stores it
file_system_mask(requested) ==
  IF requested = 0 THEN FS_ISO9660 + FS_JOLIET ELSE requested

\* the method's return value, with the log lines and status events it emits
_effective_mask_AddsUdf(stored, largest_file) ==
  LET mask == IF stored = 0 THEN FS_ISO9660 + FS_JOLIET ELSE stored
      iso_bits == mask % FS_UDF   \* the bits below the UDF bit
  IN IF AtLeast(largest_file, _max_iso_file_bytes) /\ (iso_bits # 0 \/ ~HasBit(mask, FS_UDF))
       THEN [mask |-> IF HasBit(mask, FS_UDF) THEN mask ELSE mask + FS_UDF,
             log |-> 1, status |-> 1]
       ELSE [mask |-> mask, log |-> 0, status |-> 0]

_effective_mask_AnySize(stored, largest_file) ==
  LET mask == IF stored = 0 THEN FS_ISO9660 + FS_JOLIET ELSE stored
      iso_bits == mask % FS_UDF   \* the bits below the UDF bit
  IN IF iso_bits # 0 \/ ~HasBit(mask, FS_UDF)
       THEN [mask |-> FS_UDF, log |-> 1, status |-> 1]
       ELSE [mask |-> mask, log |-> 0, status |-> 0]

_effective_mask(stored, largest_file) ==
  LET mask == IF stored = 0 THEN FS_ISO9660 + FS_JOLIET ELSE stored
      iso_bits == mask % FS_UDF   \* the bits below the UDF bit
  IN IF AtLeast(largest_file, _max_iso_file_bytes) /\ (iso_bits # 0 \/ ~HasBit(mask, FS_UDF))
       THEN [mask |-> FS_UDF, log |-> 1, status |-> 1]
       ELSE [mask |-> mask, log |-> 0, status |-> 0]

\* every subset of {ISO9660, Joliet, UDF}
Masks == 0..(FS_ISO9660 + FS_JOLIET + FS_UDF)
LargestFiles ==
  {Wide(0, 0), Wide(0, 1), Wide(3, GiB - 1), Wide(4, 0), Wide(4, 1), Wide(5, 0)}

MaskCalls ==
  {[method |-> "_effective_mask", requested |-> m, largest_file |-> l, returned |-> FALSE]
     : m \in Masks, l \in LargestFiles}

\* a worker is constructed with the requested mask and resolves the mask to use
EffectiveMask ==
  /\ calc.method = "_effective_mask" /\ ~calc.returned
  /\ calc' = [method |-> calc.method, requested |-> calc.requested,
              largest_file |-> calc.largest_file, returned |-> TRUE,
              result |-> _effective_mask(file_system_mask(calc.requested),
                                         calc.largest_file)]
  /\ UNCHANGED <<runVars, uiVars>>

\* ------------------------------------ capacity and image size (main_window.py)
\* discs: unknown, none, 10 MiB, 700,000,000 bytes, a 700 MiB CD, 1 GiB + 10 MiB,
\* a 4.7 GB DVD, a 25 GB BD
Capacities ==
  {NoneBytes, Wide(0, 0), Wide(0, 10 * MiB), Wide(0, 700000000), Wide(0, CapacityCD),
   Wide(1, 10 * MiB), Wide(4, 405405696), Wide(23, 329252864)}
\* estimates at and around the usable size of each of them
Estimates ==
  {Wide(0, 0), Wide(0, 1), Wide(0, 666445568), Wide(0, 666445569), Wide(0, 690000000),
   Wide(0, 700448768), Wide(0, 700448769), Wide(0, 1050673152), Wide(0, 1050673153),
   Wide(4, 371851264), Wide(4, 371851265), Wide(23, 266689577), Wide(23, 266689578)}
\* content sizes: nothing, one byte, 3,500,000 bytes, and sizes at and around the
\* one whose 7% reaches 128 MiB
ContentSizes == {0, 1, 3500000, 1917396114, 1917396115, 1917396129, 2000000000}

CapacityCalls ==
  {[method |-> "_is_over_capacity", _media_capacity_bytes |-> c, size |-> e,
    returned |-> FALSE] : c \in Capacities, e \in Estimates}

EstimateCalls ==
  {[method |-> "_estimate_image_size", use_iso |-> u, create_iso |-> c, size |-> a,
    size2 |-> b, returned |-> FALSE]
     : u \in BOOLEAN, c \in BOOLEAN,
       a \in ContentSizes, b \in ContentSizes}

IsOverCapacity ==
  /\ calc.method = "_is_over_capacity" /\ ~calc.returned
  /\ calc' = [method |-> calc.method, _media_capacity_bytes |-> calc._media_capacity_bytes,
              size |-> calc.size, returned |-> TRUE,
              result |-> _is_over_capacity(calc._media_capacity_bytes, calc.size)]
  /\ UNCHANGED <<runVars, uiVars>>

\* the window estimates two content sizes in the same mode
EstimateImageSize ==
  /\ calc.method = "_estimate_image_size" /\ ~calc.returned
  /\ LET s == [mw EXCEPT !.use_iso = calc.use_iso, !.create_iso = calc.create_iso]
     IN calc' = [method |-> calc.method, use_iso |-> calc.use_iso,
                 create_iso |-> calc.create_iso, size |-> calc.size, size2 |-> calc.size2,
                 returned |-> TRUE,
                 result |-> _estimate_image_size(s, calc.size),
                 result2 |-> _estimate_image_size(s, calc.size2)]
  /\ UNCHANGED <<runVars, uiVars>>

\* ------------------------------------------- image size limits (workers.py)
MaxCalls == 2       \* calls of _configure_size_limits on one file system image

\* fsi is the platform's file system image object: its BlockSize (0 when the
\* platform reports none), its FreeMediaBlocks, and whether reading or assigning
\* FreeMediaBlocks raises. Assigning ImageSizeLimit does not touch FreeMediaBlocks.
_configure_size_limits_NoMax(fsi, total_bytes) ==
  LET block_size == IF fsi.BlockSize = 0 THEN 2048 ELSE fsi.BlockSize
      est_blocks == (total_bytes + block_size - 1) \div block_size
      target_blocks == est_blocks * 2 + MiB \div block_size
  IN IF fsi.getRaises \/ fsi.putRaises THEN fsi
     ELSE [fsi EXCEPT !.FreeMediaBlocks = target_blocks]

_configure_size_limits(fsi, total_bytes) ==
  LET block_size == IF fsi.BlockSize = 0 THEN 2048 ELSE fsi.BlockSize
      est_blocks == (total_bytes + block_size - 1) \div block_size
      current_blocks == fsi.FreeMediaBlocks
      target_blocks == Max(current_blocks, est_blocks * 2 + MiB \div block_size)
  IN IF fsi.getRaises \/ fsi.putRaises THEN fsi
     ELSE [fsi EXCEPT !.FreeMediaBlocks = target_blocks]

FileSystemImages ==
  {[BlockSize |-> bs, FreeMediaBlocks |-> f, getRaises |-> g, putRaises |-> p]
     : bs \in {0, 512, 2048}, f \in {0, 1000, 359844, 1000000},
       g \in BOOLEAN, p \in BOOLEAN}
StagedTotals == {0, 1, 2048, 2049, 3500000, 700000000}

SizeLimitCalls ==
  {[method |-> "_configure_size_limits", fsi |-> f, calls |-> 0, returned |-> FALSE]
     : f \in FileSystemImages}

\* the image's size limits are configured for a staged total, possibly again
ConfigureSizeLimits ==
  /\ calc.method = "_configure_size_limits" /\ calc.calls < MaxCalls
  /\ \E total_bytes \in StagedTotals :
       calc' = [method |-> calc.method, calls |-> calc.calls + 1, returned |-> TRUE,
                before |-> calc.fsi, total_bytes |-> total_bytes,
                fsi |-> _configure_size_limits(calc.fsi, total_bytes)]
  /\ UNCHANGED <<runVars, uiVars>>

\* ------------------------------------------ readiness calls (main_window.py)
\* The window states _update_burn_enabled is called in while no job runs: the mode,
\* the list with its total and pending sizes, the ISO selection, the output path,
\* the drive and what the last media poll left behind.
ReadinessWindows ==
  {[InitMw EXCEPT !.create_iso = c, !.use_iso = u, !.list = l.list,
                  !._total_size = l.total, !._pending_size = l.pending,
                  !._iso_path = i, !.out_text = o, !.drive = d,
                  !._media_blank = b, !._media_capacity_bytes = cap]
     : c \in BOOLEAN, u \in BOOLEAN, i \in BOOLEAN, o \in BOOLEAN,
       l \in {[list |-> <<>>, total |-> 0, pending |-> {}],
              [list |-> <<1>>, total |-> 0, pending |-> {1}],
              [list |-> <<1>>, total |-> 3500000, pending |-> {}],
              [list |-> <<1>>, total |-> 600000000, pending |-> {}]},
       d \in {"none", "A"}, b \in BOOLEAN, cap \in {-1, 0, 700000000}}
\* the ISO file: none, unreadable, or of a size
ReadinessIsoFiles == {-1, -2, 0, 600000000, 690000000}

ReadinessCalls ==
  {[method |-> "_update_burn_enabled", s |-> s, e |-> [InitEnv EXCEPT !.isoFile = f],
    returned |-> FALSE] : s \in ReadinessWindows, f \in ReadinessIsoFiles}

\* the readiness is evaluated: the Burn button and the status label show it
UpdateBurnEnabled ==
  /\ calc.method = "_update_burn_enabled" /\ ~calc.returned
  /\ LET after == _update_burn_enabled(calc.s, calc.e)
     IN calc' = [method |-> calc.method, s |-> calc.s, e |-> calc.e, returned |-> TRUE,
                 ready |-> isEnabled(after, "btn_burn"),
                 reasons |-> Tail(after.status_label)]
  /\ UNCHANGED <<runVars, uiVars>>

StartBurnCalls ==
  {[method |-> "start_burn", s |-> s, e |-> InitEnv, returned |-> FALSE]
     : s \in {w \in ReadinessWindows : w.create_iso}}

\* Burn is clicked in create-image mode, the output file not existing yet
StartBurnCreateIso ==
  /\ calc.method = "start_burn" /\ ~calc.returned
  /\ LET after == start_burn(calc.s, calc.e)
     IN calc' = [method |-> calc.method, s |-> calc.s, e |-> calc.e, returned |-> TRUE,
                 started |-> after._burning /\ after._active_job = "iso" /\ after.worker # 0]
  /\ UNCHANGED <<runVars, uiVars>>

\* ------------------------------------------------- staging names (utils.py)
MaxStaged == 3      \* sources staged into one staging directory

\* A name is the sequence of its parts between underscores: "a" is <<"a">>, "a_1" is
\* <<"a", "1">>. The staging directory is the set of its top-level entries, each
\* with the source it was copied from and, for a directory, the names mirrored.
excluded == {<<".venv">>, <<"venv">>, <<"__pycache__">>, <<".mypy_cache">>, <<".git">>}
Numeral(n) == <<"1", "2", "3", "4">>[n]
exists(staging_dir, name) == \E en \in staging_dir : en.name = name
RECURSIVE unique_name_from(_, _, _)
unique_name_from(staging_dir, name, n) ==
  LET candidate == IF n = 0 THEN name ELSE name \o <<Numeral(n)>>
  IN IF exists(staging_dir, candidate) THEN unique_name_from(staging_dir, name, n + 1)
     ELSE candidate
unique_name(staging_dir, name) == unique_name_from(staging_dir, name, 0)

\* shutil.ignore_patterns(*excluded) inside _copy_tree_chunked
_copy_tree_names(names) == names \ excluded

\* the staging directory after safe_copy_into_staging(src_path, staging_dir) returned
\* without an I/O error; src is the position of the source among the job's sources
safe_copy_into_staging_of(staging_dir, src_path, src) ==
  IF src_path.base_name \in excluded THEN staging_dir
  ELSE staging_dir \cup
         {[name |-> unique_name(staging_dir, src_path.base_name), src |-> src,
           isdir |-> src_path.isdir,
           names |-> IF src_path.isdir THEN _copy_tree_names(src_path.names) ELSE {}]}

StagingSources ==
  {[base_name |-> b, isdir |-> d, names |-> IF d THEN {<<"x">>, <<"venv">>} ELSE {}]
     : b \in {<<"a">>, <<"a", "1">>, <<".git">>}, d \in BOOLEAN}

StagingCalls ==
  {[method |-> "safe_copy_into_staging", staging_dir |-> {}, source_paths |-> <<>>,
    returned |-> FALSE]}

\* for p in self.source_paths: safe_copy_into_staging(p, staging_dir, ...)
SafeCopyIntoStaging ==
  /\ calc.method = "safe_copy_into_staging" /\ Len(calc.source_paths) < MaxStaged
  /\ \E src_path \in StagingSources :
       calc' = [method |-> calc.method, returned |-> TRUE,
                source_paths |-> Append(calc.source_paths, src_path),
                before |-> calc.staging_dir,
                staging_dir |-> safe_copy_into_staging_of(calc.staging_dir, src_path,
                                                          Len(calc.source_paths) + 1)]
  /\ UNCHANGED <<runVars, uiVars>>

\* ------------------------------- progress and rate events (workers.py, imapi.py)
MaxUpdates == 10    \* observations of one burn that each report more sectors, 1 s apart
MaxIrregular == 4   \* observations of one burn of any phase, percent and timing
MaxStep == 2        \* seconds between two observations or two chunks
MaxImageChunks == 3 \* 1 MiB chunks of an image stream
MaxCancels == 2     \* callbacks of one burn after the stop request

maxlen == 8
\* a speed is the quotient num / den of two whole numbers, never rounded
Rat(n, d) == [num |-> n, den |-> d]
ZeroSpeed == Rat(0, 1)
RatGreater(x, y) == x.num * y.den > y.num * x.den
Min(a, b) == IF a <= b THEN a ELSE b

\* the events of one job
Progress(percent) == [ev |-> "progress", percent |-> percent]
ProgressInfo(speed, eta) == [ev |-> "progress_info", speed |-> speed, eta |-> eta]
Status(text) == [ev |-> "status", text |-> text]
NoEta == [present |-> FALSE]
\* eta = remaining / speed, kept as the quotient it is
Eta(remaining, speed) == [present |-> TRUE, remaining |-> remaining, speed |-> speed]

action_map(action) ==
  CASE action = 0 -> "Unknown/Idle"
    [] action = 1 -> "Validating media"
    [] action = 2 -> "Formatting media"
    [] action = 3 -> "Initializing/hibernating"
    [] action = 4 -> "Calculating progress"
    [] action = 5 -> "Writing data"
    [] action = 6 -> "Finalizing session"
    [] action = 7 -> "Completed"
    [] action = 8 -> "Verifying"
    [] OTHER -> "Action=?"

\* percent = int(max(0, min(100, ((last - start) * 100) / count))), -1 for None
percent_of(start, last, count) ==
  IF count <= 0 THEN -1
  ELSE IF last <= start THEN 0
  ELSE IF last - start >= count THEN 100
  ELSE ((last - start) * 100) \div count

\* deque(maxlen=8).append
deque_append_Unbounded(q, x) == Append(q, x)

deque_append(q, x) == IF Len(q) = maxlen THEN Append(Tail(q), x) ELSE Append(q, x)

\* "writing data" in status.lower(), or no status given ("none")
writing(status) == status = "none" \/ status = "Writing data"

\* max_speed_bytes = int(self.write_speed) * 1024 if self.write_speed else None (0)
max_speed_bytes(write_speed) == IF write_speed # 0 THEN write_speed * 1024 ELSE 0

\* (variant: the published speed is not held to the configured write speed)
PublishedSpeed_NoClamp(w, pct, now) ==
  IF w._speed_history # <<>>
    THEN Rat(Sum(w._speed_history), Len(w._speed_history))
    ELSE Rat((w._total_bytes_est \div 100) * pct, Max(now - w.start_time, 1))

\* the speed of the writing branch: the mean of the window, or done bytes over the
\* time since the start when the window is empty; held to max_speed_bytes
PublishedSpeed(w, pct, now) ==
  LET speed == IF w._speed_history # <<>>
                 THEN Rat(Sum(w._speed_history), Len(w._speed_history))
                 ELSE Rat((w._total_bytes_est \div 100) * pct, Max(now - w.start_time, 1))
      cap == max_speed_bytes(w.write_speed)
  IN IF cap # 0 /\ RatGreater(speed, Rat(cap, 1)) THEN Rat(cap, 1) ELSE speed

\* BurnWorker.run._emit_progress_info: the worker after the call, its one
\* progress_info event in `info`. Totals are multiples of 100 bytes.
_emit_progress_info(w, percent, status, now) ==
  IF ~writing(status)
    THEN [w EXCEPT !._speed_history = <<>>, !.info = ProgressInfo(ZeroSpeed, NoEta)]
  ELSE IF w._total_bytes_est <= 0
    THEN [w EXCEPT !.info = ProgressInfo(ZeroSpeed, NoEta)]
  ELSE
    LET pct == Max(0, Min(100, percent))
        delta_pct == pct - w.last_progress
        bytes_delta == (w._total_bytes_est \div 100) * delta_pct
        elapsed == Max(now - w.last_time, 1)
        w1 == IF delta_pct > 0
                THEN [w EXCEPT !._speed_history = deque_append(@, bytes_delta \div elapsed),
                               !.last_progress = pct, !.last_time = now]
                ELSE w
        speed == PublishedSpeed(w1, pct, now)
        done_bytes == (w._total_bytes_est \div 100) * pct
        remaining == Max(0, w._total_bytes_est - done_bytes)
    IN [w1 EXCEPT !.info = ProgressInfo(speed, IF speed.num > 0 THEN Eta(remaining, speed)
                                                               ELSE NoEta)]

\* The burn from "Starting burn..." on. The platform reports the phases in their
\* order, and of the SectorCount sectors from sector 0 on a last written sector
\* (lba) that never goes back; each report comes 1 to
\* MaxStep seconds after the one before, at a time that keeps the sample a whole
\* number of bytes per second. A steady run reports more sectors every second.
PhaseOrder == <<1, 5, 6, 8>>
Rank(action) == CHOOSE i \in 1..Len(PhaseOrder) : PhaseOrder[i] = action
BurnRuns ==
  {[method |-> "BurnWorker.run", steady |-> s, _total_bytes_est |-> t, write_speed |-> ws,
    start_time |-> 0, now |-> 0, action |-> 1, SectorCount |-> 20, lba |-> 0, updates |-> 0,
    _last_percent |-> -1, last_progress |-> 0, last_time |-> 0, _speed_history |-> <<>>,
    info |-> ProgressInfo(ZeroSpeed, NoEta), obs |-> <<>>,
    phase |-> "", emitted |-> <<>>, progress_log |-> <<>>, returned |-> FALSE,
    _stop_requested |-> FALSE, _last_action |-> -1, logged |-> <<>>, cancels |-> 0]
     : s \in BOOLEAN, t \in {0, 1000000000}, ws \in {0, 97656}}

Logged(c, events) ==
  [k \in 1..Cardinality({i \in 1..Len(events) : events[i].ev = "progress"}) |->
     LET i == CHOOSE i \in 1..Len(events) :
                /\ events[i].ev = "progress"
                /\ Cardinality({j \in 1..i : events[j].ev = "progress"}) = k
         before == {j \in 1..i : events[j].ev = "status"}
     IN [phase |-> IF before = {} THEN c.phase
                   ELSE events[CHOOSE j \in before : \A j2 \in before : j2 <= j].text,
         percent |-> events[i].percent]]
LastPhase(c, events) ==
  LET st == {j \in 1..Len(events) : events[j].ev = "status"}
  IN IF st = {} THEN c.phase ELSE events[CHOOSE j \in st : \A j2 \in st : j2 <= j].text
\* the job emitted the events: they are its last events, the percents join its log
Emit(c, events) ==
  [c EXCEPT !.emitted = events, !.progress_log = @ \o Logged(c, events),
            !.phase = LastPhase(c, events)]

\* (variant: the cancelling callback still reports the status)
OnUpdateCancels_EmitsStatus(c) ==
  [c EXCEPT !.updates = @ + 1, !.cancels = @ + 1, !.logged = <<"Cancelling burn...">>,
            !.emitted = <<Status(action_map(c.action))>>]

\* DiscFormat2DataEvents.OnUpdate with the stop flag set: one log line, then
\* sender.CancelWrite() (an error of it is swallowed), and the callback returns
OnUpdateCancels(c) ==
  [c EXCEPT !.updates = @ + 1, !.cancels = @ + 1, !.logged = <<"Cancelling burn...">>,
            !.emitted = <<>>]

\* request_stop() during fmt.Write: the flag fmt._stop_check reads
RequestStopInWrite ==
  /\ calc.method = "BurnWorker.run" /\ ~calc.returned
  /\ ~calc._stop_requested
  /\ calc' = [calc EXCEPT !._stop_requested = TRUE]
  /\ UNCHANGED <<runVars, uiVars>>

\* a callback of the platform after the stop request
OnUpdateCancelling ==
  /\ calc.method = "BurnWorker.run" /\ ~calc.returned
  /\ calc._stop_requested /\ calc.cancels < MaxCancels
  /\ calc' = OnUpdateCancels(calc)
  /\ UNCHANGED <<runVars, uiVars>>

\* fmt.Write raises after a CancelWrite the platform accepted: no further event
\* of the write stage
BurnWriteCancelled ==
  /\ calc.method = "BurnWorker.run" /\ ~calc.returned /\ calc.cancels >= 1
  /\ calc' = [calc EXCEPT !.returned = TRUE, !.emitted = <<>>, !.logged = <<>>, !.obs = <<>>]
  /\ UNCHANGED <<runVars, uiVars>>

\* DiscFormat2DataEvents.OnUpdate with the stop flag clear, and the callback
\* fmt._emit_progress it calls: the log line "Status: ..." when the action code
\* changed, status, then progress and progress_info when the percent is there and
\* differs from the last one
OnUpdateObserved ==
  /\ calc.method = "BurnWorker.run" /\ ~calc.returned /\ ~calc._stop_requested
  /\ calc.updates < (IF calc.steady THEN MaxUpdates ELSE MaxIrregular)
  /\ \E action \in Range(PhaseOrder), more \in {0, 1, 2, 4}, dt \in 1..MaxStep :
       /\ Rank(action) >= Rank(calc.action)
       /\ calc.steady => action = 5 /\ more \in {1, 2} /\ dt = 1
       /\ ~calc.steady => more # 1
       /\ calc.lba + more <= calc.SectorCount
       /\ LET now == calc.now + dt
              status == action_map(action)
              percent == percent_of(0, calc.lba + more, calc.SectorCount)
              fresh == percent # -1 /\ percent # calc._last_percent
              w == IF fresh THEN _emit_progress_info(calc, percent, status, now) ELSE calc
              c == [w EXCEPT !.now = now, !.action = action, !.lba = @ + more,
                             !.updates = @ + 1,
                             !._last_percent = IF fresh THEN percent ELSE @,
                             !._last_action = action,
                             !.logged = IF action # calc._last_action
                                          THEN <<"Status: " \o status>> ELSE <<>>,
                             !.obs = <<now, percent, status>>]
          IN /\ calc' = Emit(c, <<Status(status)>>
                                  \o (IF fresh THEN <<Progress(percent), w.info>> ELSE <<>>))
             /\ (fresh /\ writing(status) /\ percent > calc.last_progress) =>
                   ((calc._total_bytes_est \div 100) * (percent - calc.last_progress))
                      % (now - calc.last_time) = 0
  /\ UNCHANGED <<runVars, uiVars>>

\* fmt.Write returned: progress.emit(100), _emit_progress_info(100), status "Completed"
BurnCompleted ==
  /\ calc.method = "BurnWorker.run" /\ ~calc.returned /\ calc.updates >= 1
  /\ \E dt \in 1..MaxStep :
       LET now == calc.now + dt
           w == _emit_progress_info(calc, 100, "none", now)
       IN /\ calc' = Emit([w EXCEPT !.now = now, !.returned = TRUE, !.obs = <<>>,
                                    !.logged = <<>>],
                          <<Progress(100), w.info, Status("Completed")>>)
          /\ (calc._total_bytes_est > 0 /\ 100 > calc.last_progress) =>
                ((calc._total_bytes_est \div 100) * (100 - calc.last_progress))
                   % (now - calc.last_time) = 0
  /\ UNCHANGED <<runVars, uiVars>>

\* IsoCreateWorker.run from the size walk on: expected_size and the stream length in
\* chunks of 1 MiB; "Copying sources into staging..." is the phase before it
MiBytes(chunks) == chunks * MiB
IsoRuns ==
  {[method |-> "IsoCreateWorker.run", pc |-> "size_walk", verify |-> v,
    expected_size |-> e, imgLen |-> n, written |-> 0, _total_bytes_est |-> 0,
    start_time |-> 0, now |-> 0, phase |-> "", emitted |-> <<>>, progress_log |-> <<>>,
    returned |-> FALSE]
     : v \in BOOLEAN, e \in 0..MaxImageChunks, n \in 0..MaxImageChunks}

\* (variant: the percent of the write loop is not held at 99)
IsoPercent_NoCap(done, expected) == (done * 100) \div expected

\* pct = min(99, int((written / expected_size) * 100))
IsoPercent(done, expected) == Min(99, (done * 100) \div expected)

\* IsoCreateWorker.run._emit_progress_info
_emit_progress_info_iso(c, now) ==
  IF c._total_bytes_est <= 0 THEN ProgressInfo(ZeroSpeed, NoEta)
  ELSE LET elapsed == Max(now - c.start_time, 1)
           done_bytes == Max(0, Min(c._total_bytes_est, MiBytes(c.written)))
           speed == Rat(done_bytes, elapsed)
           remaining == Max(0, c._total_bytes_est - done_bytes)
       IN ProgressInfo(speed, IF speed.num > 0 THEN Eta(remaining, speed) ELSE NoEta)

\* progress.emit(10); status.emit("Building ISO image..."); the image is built and
\* _total_bytes_est = expected_size
IsoBuildProgress ==
  /\ calc.method = "IsoCreateWorker.run" /\ calc.pc = "size_walk"
  /\ calc' = Emit([calc EXCEPT !.pc = "write",
                               !._total_bytes_est = MiBytes(calc.expected_size)],
                  <<Progress(10), Status("Building ISO image...")>>)
  /\ UNCHANGED <<runVars, uiVars>>

\* one round of the write loop that read a chunk: written += len(data); progress
\* when expected_size; _emit_progress_info()
IsoChunkProgress ==
  /\ calc.method = "IsoCreateWorker.run" /\ calc.pc = "write" /\ calc.written < calc.imgLen
  /\ \E dt \in 1..MaxStep :
       LET c == [calc EXCEPT !.written = @ + 1, !.now = @ + dt]
       IN calc' = Emit(c, (IF c.expected_size # 0
                             THEN <<Progress(IsoPercent(c.written, c.expected_size))>>
                             ELSE <<>>)
                            \o <<_emit_progress_info_iso(c, c.now)>>)
  /\ UNCHANGED <<runVars, uiVars>>

\* the stream is at its end and the sizes agree: status "Verifying ISO..." when
\* verify, then progress.emit(100), status.emit("Completed")
IsoCompleted ==
  /\ calc.method = "IsoCreateWorker.run" /\ calc.pc = "write" /\ calc.written = calc.imgLen
  /\ calc.expected_size = 0 \/ calc.written = calc.expected_size
  /\ calc' = Emit([calc EXCEPT !.pc = "done", !.returned = TRUE],
                  (IF calc.verify THEN <<Status("Verifying ISO...")>> ELSE <<>>)
                    \o <<Progress(100), Status("Completed")>>)
  /\ UNCHANGED <<runVars, uiVars>>

\* SpecRate: the progress, status and rate events of one job from the start of its
\* write stage on, no stop requested.
InitRate ==
  /\ RunIdle /\ mw = InitMw /\ env = InitEnv
  /\ calc \in BurnRuns \cup IsoRuns
NextRate ==
  \/ OnUpdateObserved \/ BurnCompleted
  \/ IsoBuildProgress \/ IsoChunkProgress \/ IsoCompleted
SpecRate == InitRate /\ [][NextRate]_vars

\* SpecCancel: the callbacks of one burn whose observations are of any phase,
\* percent and timing, the stop requested at any moment of fmt.Write.
InitCancel ==
  /\ RunIdle /\ mw = InitMw /\ env = InitEnv
  /\ calc \in {c \in BurnRuns : ~c.steady}
NextCancel ==
  \/ OnUpdateObserved \/ BurnCompleted
  \/ RequestStopInWrite \/ OnUpdateCancelling \/ BurnWriteCancelled
SpecCancel == InitCancel /\ [][NextCancel]_vars

\* ------------------------------ background workers (main_window.py, workers.py)
\* run() of a background worker as the events it emits, for the place where a
\* platform call of it raises ("none": every call returns).
\* WriterLookupWorker has one signal, result(writers, None) or result(None, message).
WorkerResult(isError) == [sig |-> "result", error |-> isError]
WorkerError == [sig |-> "error", error |-> TRUE]

\* (variant: an exception ends run() without an event)
WorkerEvents_SilentOnError(method, raisesAt) ==
  IF raisesAt = "none" THEN <<WorkerResult(FALSE)>> ELSE <<>>

WorkerEvents(method, raisesAt) ==
  CASE method = "WriterLookupWorker.run" ->
         \* try: result.emit(list_imapi_writers(), None) except: result.emit(None, str(e))
         IF raisesAt = "lookup" THEN <<WorkerResult(TRUE)>> ELSE <<WorkerResult(FALSE)>>
    [] method = "SpeedLookupWorker.run" ->
         \* an error inside the descriptor loop or of SupportedWriteSpeeds is swallowed
         IF raisesAt \in {"import", "dispatch"} THEN <<WorkerError>> ELSE <<WorkerResult(FALSE)>>
    [] method = "MediaStatusWorker.run" ->
         \* an error reading the capacity is swallowed (capacity = None)
         IF raisesAt \in {"import", "dispatch", "media"} THEN <<WorkerError>> ELSE <<WorkerResult(FALSE)>>
    [] method = "SizeWorker.run" ->
         \* _compute_path_size swallows OSError and returns what it has, or 0
         <<WorkerResult(FALSE)>>

RaisesAt(method) ==
  CASE method = "WriterLookupWorker.run" -> {"none", "lookup"}
    [] method = "SpeedLookupWorker.run" -> {"none", "import", "dispatch", "descriptor", "speeds"}
    [] method = "MediaStatusWorker.run" -> {"none", "import", "dispatch", "media", "capacity"}
    [] method = "SizeWorker.run" -> {"none", "stat"}

WorkerMethods ==
  {"WriterLookupWorker.run", "SpeedLookupWorker.run", "MediaStatusWorker.run", "SizeWorker.run"}
WorkerCalls ==
  {[method |-> m, raisesAt |-> r, returned |-> FALSE, emitted |-> <<>>]
     : m \in WorkerMethods, r \in {"none", "lookup", "import", "dispatch", "descriptor",
                                   "speeds", "media", "capacity", "stat"}}

\* one invocation of a background worker runs to its end
WorkerRun ==
  /\ calc.method \in WorkerMethods /\ ~calc.returned
  /\ calc.raisesAt \in RaisesAt(calc.method)
  /\ calc' = [calc EXCEPT !.returned = TRUE,
                          !.emitted = WorkerEvents(calc.method, calc.raisesAt)]
  /\ UNCHANGED <<runVars, uiVars>>

\* SpecCalc: calls of one method on its own, on arguments drawn from the sets above.
InitCalc ==
  /\ RunIdle /\ mw = InitMw /\ env = InitEnv
  /\ calc \in MaskCalls \cup CapacityCalls \cup EstimateCalls \cup SizeLimitCalls
               \cup ReadinessCalls \cup StartBurnCalls \cup StagingCalls
               \cup {c \in WorkerCalls : c.raisesAt \in RaisesAt(c.method)}

NextCalc ==
  \/ EffectiveMask \/ IsOverCapacity \/ EstimateImageSize \/ ConfigureSizeLimits
  \/ UpdateBurnEnabled \/ StartBurnCreateIso \/ SafeCopyIntoStaging
  \/ WorkerRun

SpecCalc == InitCalc /\ [][NextCalc]_vars

\* ------------------------------------------------------ claims on one job run
InProgressStages == {"Preparing", "Staging", "BuildingImage", "Writing", "Verifying"}

\* C3: every run of BurnWorker.run / IsoCreateWorker.run emits done exactly once,
\* whatever stage succeeds, fails or is cancelled, and emits no log, progress,
\* status or progress_info event after that done.
C3_DoneExactlyOnce ==
  /\ doneCount <= 1
  /\ ~afterDone
  /\ pc \in {"finally", "ended"} => doneCount = 1

\* a cancelled run has ended and emitted its single done
C3_Witness == pc = "ended" /\ doneCount = 1 /\ _stop_requested /\ ~doneOk

\* C4: whenever the try block ends because a checkpoint observed the cancellation
\* flag (loop over sources, chunk loop, directory entry, image write loop, or the
\* write callback's CancelWrite), the terminal event is done(False, "Stopped by
\* user"), never a failure message and never done(True, ...).
C4_CheckpointReportsStopped ==
  (doneCount >= 1 /\ cause = "checkpoint") => (~doneOk /\ doneMsg = MsgStopped)

\* the write callback cancelled fmt.Write, whose own error text is not the sentinel
C4_Witness == doneCount = 1 /\ cause = "checkpoint" /\ exc = MsgCancelled

\* C5: if request_stop is called while the job is in any in-progress state, in
\* either job kind, the job ends with done(False, "Stopped by user") and never
\* with done(True, ...).
C5_StopAlwaysEndsStopped ==
  (stopStage \in InProgressStages /\ doneCount >= 1) => (~doneOk /\ doneMsg = MsgStopped)

\* C6: once the stop flag is set while a source path is being copied, no further
\* source path is started, at most one further chunk is written, none of the later
\* stages (size walk, mask resolution, image build, write) runs, and the job ends
\* Stopped.
C6_StagingStopShortCircuits ==
  stopInCopy =>
    /\ ~srcAfterStop
    /\ chunksAfterStop <= 1
    /\ ~laterAfterStop
    /\ doneCount >= 1 => (~doneOk /\ doneMsg = MsgStopped)

\* C7: for every run that created a staging directory, its removal is attempted
\* exactly once on every outcome (never without one), and the cleanup, failing or
\* not, leaves the ok flag and the message of the emitted done as they were.
C7_CleanupExactlyOnce ==
  /\ rmtreeCount <= 1
  /\ pc = "ended" =>
        /\ rmtreeCount = (IF tmpdir THEN 1 ELSE 0)
        /\ doneCount = 1
        /\ <<doneOk, doneMsg>> = doneAtCleanup

\* a failed job whose staging directory removal met an error
C7_Witness == pc = "ended" /\ tmpdir /\ rmtreeErr /\ ~doneOk /\ doneMsg = MsgPlatform

\* ------------------------------------------------- claims on the coordinator
ThreadStarted(T, T2) == \E i \in DOMAIN T : ~T[i].used /\ T2[i].used
\* the text the status label shows while a job is running
BusyText == {<<"Burning...">>, <<"Processing...">>}
\* the controls _set_ui_enabled(False) disables
LockedControls == Controls \ {"btn_stop"}
\* the step delivers the result or the finished signal of a writer or media lookup
WriterOrMediaDelivered ==
  \E i \in 1..MaxPollers :
    \/ mw.writerT[i].res = "queued" /\ mw'.writerT[i].res = "done"
    \/ CanFinish(mw.writerT, i) /\ ~mw'.writerT[i].used
    \/ mw.mediaT[i].res = "queued" /\ mw'.mediaT[i].res = "done"
    \/ CanFinish(mw.mediaT, i) /\ ~mw'.mediaT[i].used

\* C1: at any time at most one job worker thread is executing its run(), the
\* finally block included: no worker is started while an earlier one has not ended.
C1_OneJobWorker == Cardinality({j \in 1..MaxJobs : mw.jobs[j].alive}) <= 1

\* C2: a step starts a job worker only if no job is active and the list of blocking
\* reasons evaluated on the state at that moment is empty; a Burn click that starts
\* no worker leaves worker, _burning and _active_job as they were.
C2_StartOnlyWhenReady ==
  [][/\ ThreadStarted(mw.jobs, mw'.jobs) => (~mw._burning /\ reasons(mw, env) = <<>>)
     /\ (ClickBurn /\ ~ThreadStarted(mw.jobs, mw'.jobs)) =>
           /\ mw'.worker = mw.worker
           /\ mw'._burning = mw._burning
           /\ mw'._active_job = mw._active_job]_vars

\* C8: for both job kinds, a job ended with "Stopped by user" sets the status
\* "Stopped" and opens no error dialog; a job ended with any other failure sets the
\* status "Failed" and opens a blocking error dialog showing the failure message.
C8_FailureReporting ==
  (mw.doneKind # "none" /\ ~mw.doneOk) =>
    IF mw.doneMsg = MsgStopped
      THEN mw.doneStatus = "Stopped" /\ mw.doneDialog = "none"
      ELSE mw.doneStatus = "Failed" /\ mw.doneDialog = mw.doneMsg

\* C9: while a burn job is active, no step starts a media-status worker or a
\* write-speed worker.
C9_NoPollerDuringBurn ==
  [][(mw._burning /\ mw._active_job = "burn" /\ isRunning(mw.jobs, mw.worker)) =>
       /\ ~ThreadStarted(mw.mediaT, mw'.mediaT)
       /\ ~ThreadStarted(mw.speedT, mw'.speedT)]_vars

\* C10: while a job is active, the delivery of a writer-lookup or media-status
\* signal leaves the Burn button disabled and the status label at the busy text,
\* and enables no control the job has locked (the refresh button included).
C10_PollResultsKeepBusy ==
  [][(mw._burning /\ mw'._burning /\ WriterOrMediaDelivered) =>
       /\ ~isEnabled(mw', "btn_burn")
       /\ mw'.status_label \in BusyText
       /\ (mw'.enabled \ mw.enabled) \cap LockedControls = {}]_vars

\* ------------------------------------------------------- claims on the pollers
\* the step delivers a queued signal of a thread of T that was started for a
\* recorder other than the one selected now
StaleDelivered(T, T2) ==
  \E i \in DOMAIN T :
    /\ T[i].res = "queued" /\ T2[i].res = "done"
    /\ mw.drive # "none" /\ T[i].uid # mw.drive

\* C11: a media-status or write-speed event (result or error) requested for one
\* recorder and delivered while another recorder is selected changes neither
\* _media_blank, nor _media_capacity_bytes, nor the readiness (the reasons list
\* evaluated on the state), nor the speed cache.
C11_StaleEventsIgnored ==
  [][(StaleDelivered(mw.mediaT, mw'.mediaT) \/ StaleDelivered(mw.speedT, mw'.speedT)) =>
       /\ mw'._media_blank = mw._media_blank
       /\ mw'._media_capacity_bytes = mw._media_capacity_bytes
       /\ reasons(mw', env') = reasons(mw, env)
       /\ mw'._speed_cache = mw._speed_cache]_vars

\* the media state the window holds was reported for the recorder selected now
MediaStateIsCurrent(s) ==
  s._last_media_state # <<>> /\ s._last_media_state[1] = s.drive

\* C12: once the selected recorder has changed, the media state observed for the
\* old one is not used: a burn is started only when the media state the window
\* holds was reported by a poll of the recorder selected now.
C12_NoBurnOnOldMediaState ==
  [][(ThreadStarted(mw.jobs, mw'.jobs) /\ ~mw.create_iso) => MediaStateIsCurrent(mw)]_vars

\* the step delivers a poll result that shows another (blank, supported,
\* capacity) tuple than the last one observed for the selected recorder
MediaChangeObserved ==
  /\ mw._last_media_state # <<>> /\ mw'._last_media_state # <<>>
  /\ mw'._last_media_state # mw._last_media_state
  /\ mw'._last_media_state[1] = mw._last_media_state[1]

\* C13: when a poll result shows another (blank, supported, capacity) tuple than
\* the last one for the selected recorder, the cached speed list of that recorder
\* is invalidated and a new speed query is forced: one is started by that very
\* handler, so that the list cached next is not the answer of a query that was
\* already in flight.
C13_SpeedListFromNewQuery ==
  [][MediaChangeObserved =>
       /\ ~mw'._speed_cache[mw'.drive].has
       /\ ThreadStarted(mw.speedT, mw'.speedT)]_vars

\* ---------------------------------------------------- claims on the path list
Pos(q, x) == CHOOSE i \in 1..Len(q) : q[i] = x
\* the step starts a SizeWorker
SizeWorkerStarted ==
  mw'._current_size_worker.phase = "run" /\ mw._current_size_worker.phase # "run"

\* C14: after any sequence of add, remove, clear and worker-finished events at
\* most one SizeWorker is in flight; a worker is started only when none is in
\* flight or in the handler of the previous worker's finished signal, and the path
\* it is started for was added before every path still waiting in the queue.
C14_SizeWorkersSerializedFifo ==
  [][/\ mw'.sizeWorkersAlive <= 1
     /\ SizeWorkerStarted =>
          LET p == mw'._current_size_worker.path IN
          /\ mw.sizeWorkersAlive = 0 \/ mw._current_size_worker.phase = "finished"
          /\ p \in Range(mw'.list)
          /\ \A q \in Range(mw'._size_queue) : Pos(mw'.list, p) < Pos(mw'.list, q)]_vars

\* three paths were added, the worker of the first has finished, the worker of
\* the second is running and the third waits in the queue
C14_Witness ==
  /\ Len(mw.list) = 3 /\ mw._path_sizes[mw.list[1]] > 0
  /\ mw._current_size_worker.phase = "run" /\ mw._current_size_worker.path = mw.list[2]
  /\ mw._size_queue = <<mw.list[3]>> /\ mw.sizeWorkersAlive = 1

\* ------------------------------------------------ claims on the pure methods
Returned(method) == calc.method = method /\ calc.returned
FourGiB == Wide(4, 0)
\* the requested mask includes ISO9660 or Joliet, or lacks UDF
NeedsEscalation(requested) == requested % FS_UDF # 0 \/ ~HasBit(requested, FS_UDF)

\* C15 as stated: for every requested mask and every largest file of at least
\* 4 GiB, _effective_mask returns UDF-only and emits exactly one notice.
C15_AlwaysUdfWithOneNotice ==
  (Returned("_effective_mask") /\ AtLeast(calc.largest_file, FourGiB)) =>
    calc.result.mask = FS_UDF /\ calc.result.log = 1

\* C15 amended: for every requested mask and every largest file of at least
\* 4 GiB, _effective_mask returns UDF-only; it emits the notice (one log line and
\* one status event) when the requested mask is not UDF-only, and nothing when the
\* requested mask is UDF-only already.
C15_UdfWithNoticeOnChange ==
  (Returned("_effective_mask") /\ AtLeast(calc.largest_file, FourGiB)) =>
    /\ calc.result.mask = FS_UDF
    /\ IF calc.requested = FS_UDF
         THEN calc.result.log = 0 /\ calc.result.status = 0
         ELSE calc.result.log = 1 /\ calc.result.status = 1

C15_Witness ==
  /\ Returned("_effective_mask") /\ calc.largest_file = Wide(5, 0)
  /\ calc.requested = FS_UDF /\ calc.result.mask = FS_UDF /\ calc.result.log = 0

\* C16 as stated: for every requested mask, the empty one included, and every
\* largest file below 4 GiB, the effective mask equals the requested mask and no
\* notice is emitted.
C16_SmallFilesKeepMask ==
  (Returned("_effective_mask") /\ ~AtLeast(calc.largest_file, FourGiB)) =>
    /\ calc.result.mask = calc.requested
    /\ calc.result.log = 0 /\ calc.result.status = 0

\* C16 amended: for every largest file below 4 GiB no notice is emitted and the
\* effective mask equals the requested mask when that is not empty; the empty mask
\* is replaced by ISO9660 + Joliet.
C16_SmallFilesKeepNonEmptyMask ==
  (Returned("_effective_mask") /\ ~AtLeast(calc.largest_file, FourGiB)) =>
    /\ calc.requested # 0 => calc.result.mask = calc.requested
    /\ calc.requested = 0 => calc.result.mask = FS_ISO9660 + FS_JOLIET
    /\ calc.result.log = 0 /\ calc.result.status = 0

C16_Witness ==
  /\ Returned("_effective_mask") /\ calc.largest_file = Wide(0, 1)
  /\ calc.requested = 0 /\ calc.result.mask = FS_ISO9660 + FS_JOLIET

\* C17 as stated: the threshold is 4 GiB - 1: a largest file of exactly
\* 4 GiB - 1 bytes and a requested mask that includes ISO9660 or Joliet or lacks
\* UDF give UDF-only.
C17_ThresholdFourGiBMinusOne ==
  (Returned("_effective_mask") /\ calc.largest_file = Wide(3, GiB - 1)
     /\ NeedsEscalation(calc.requested)) =>
    calc.result.mask = FS_UDF

\* C17 amended: the threshold is 4 GiB: a largest file of exactly 4 GiB and a
\* requested mask that includes ISO9660 or Joliet or lacks UDF give UDF-only, and
\* a largest file of exactly 4 GiB - 1 bytes leaves every mask as stored.
C17_ThresholdFourGiB ==
  /\ (Returned("_effective_mask") /\ calc.largest_file = FourGiB
       /\ NeedsEscalation(calc.requested)) =>
      calc.result.mask = FS_UDF
  /\ (Returned("_effective_mask") /\ calc.largest_file = Wide(3, GiB - 1)) =>
      calc.result.mask = file_system_mask(calc.requested)

C17_Witness ==
  /\ Returned("_effective_mask") /\ calc.largest_file = FourGiB
  /\ calc.requested = FS_ISO9660 + FS_JOLIET /\ calc.result.mask = FS_UDF

\* capacity - max(32 MiB, 0.25% of capacity, truncated), worked out by hand for the
\* discs of Capacities that are larger than their headroom
UsableBytes(capacity) ==
  CASE capacity = Wide(0, 700000000) -> Wide(0, 666445568)
    [] capacity = Wide(0, CapacityCD) -> Wide(0, 700448768)
    [] capacity = Wide(1, 10 * MiB) -> Wide(0, 1050673152)
    [] capacity = Wide(4, 405405696) -> Wide(4, 371851264)
    [] capacity = Wide(23, 329252864) -> Wide(23, 266689577)
    [] OTHER -> Wide(0, 0)

FilesMode == ~calc.use_iso /\ ~calc.create_iso
\* max(128 MiB, 7% of the content size, truncated), worked out by hand
ExpectedOverhead(size) ==
  CASE size = 1917396129 -> 134217729
    [] size = 2000000000 -> 140000000
    [] OTHER -> 134217728

\* C19 as stated: for every content size, _estimate_image_size returns the size
\* unchanged in burn-existing-image and create-image modes and
\* size + max(128 MiB, 7% of size) in burn-files-directly mode.
C19_EstimateForEverySize ==
  Returned("_estimate_image_size") =>
    IF FilesMode THEN calc.result = calc.size + ExpectedOverhead(calc.size)
                 ELSE calc.result = calc.size

\* C19 amended: for every content size above 0, _estimate_image_size returns the
\* size unchanged in burn-existing-image and create-image modes and
\* size + max(128 MiB, 7% of size truncated to whole bytes) in burn-files-directly
\* mode (3,500,000 bytes gives 3,500,000 + 134,217,728); for content size 0 it
\* returns 0 in every mode.
C19_EstimateForPositiveSize ==
  Returned("_estimate_image_size") =>
    IF calc.size = 0 THEN calc.result = 0
    ELSE IF FilesMode THEN calc.result = calc.size + ExpectedOverhead(calc.size)
    ELSE calc.result = calc.size

C19_Witness ==
  /\ Returned("_estimate_image_size") /\ FilesMode
  /\ calc.size = 3500000 /\ calc.result = 137717728

\* C20: for a fixed mode _estimate_image_size is monotonically non-decreasing in
\* the content size, also from zero to a positive size.
C20_EstimateMonotone ==
  (Returned("_estimate_image_size") /\ calc.size <= calc.size2) =>
    calc.result <= calc.result2

C20_Witness ==
  /\ Returned("_estimate_image_size") /\ FilesMode
  /\ calc.size = 0 /\ calc.size2 = 1 /\ calc.result = 0 /\ calc.result2 = 134217729

\* C21: _configure_size_limits never lowers the block allowance: after every call
\* FreeMediaBlocks is at least its value before the call and, when the assignment
\* succeeds, at least 2 * ceil(total_bytes / block size) + (1 MiB / block size),
\* i.e. half of what exceeds the fixed extra holds the staged total.
C21_AllowanceNeverShrinks ==
  Returned("_configure_size_limits") =>
    LET bs == IF calc.fsi.BlockSize = 0 THEN 2048 ELSE calc.fsi.BlockSize
        after == calc.fsi.FreeMediaBlocks
    IN /\ after >= calc.before.FreeMediaBlocks
       /\ (~calc.fsi.getRaises /\ ~calc.fsi.putRaises) =>
            /\ after >= MiB \div bs
            /\ ((after - MiB \div bs) \div 2) * bs >= calc.total_bytes

\* the second call on an image, for a smaller total than the first, keeps the
\* allowance of the first
C21_Witness ==
  /\ Returned("_configure_size_limits") /\ calc.calls = 2
  /\ calc.total_bytes = 1 /\ calc.fsi.BlockSize = 2048
  /\ calc.before.FreeMediaBlocks = 684106 /\ calc.fsi.FreeMediaBlocks = 684106

\* the reasons that hold in a window state, by the mode: which of them hold is
\* worked out from the inputs alone. Over capacity: the disc of 700,000,000 bytes
\* holds 666,445,568 usable bytes; 600,000,000 bytes of files take 734,217,728.
HoldsSourceReasons(s) ==
  {r \in {"add files/folders"} : s.list = <<>>}
    \cup {r \in {"calculating sizes"} : s._pending_size # {}}
HoldsDiscReasons(s, contentOver) ==
  {r \in {"select a drive"} : s.drive = "none"}
    \cup {r \in {"no blank/unsupported disc"} : ~s._media_blank}
    \cup {r \in {"over capacity"} : s._media_capacity_bytes = 700000000 /\ contentOver}
BurnFilesCall == ~calc.s.create_iso /\ ~calc.s.use_iso
BurnIsoCall == ~calc.s.create_iso /\ calc.s.use_iso
CreateIsoCall == calc.s.create_iso
NoIsoFile == ~calc.s._iso_path \/ calc.e.isoFile = -1
UnreadableIsoFile == calc.s._iso_path /\ calc.e.isoFile = -2
ReasonsPerMode(isoReasons) ==
  /\ calc.ready <=> calc.reasons = <<>>
  /\ BurnFilesCall =>
       Range(calc.reasons) = HoldsSourceReasons(calc.s)
                               \cup HoldsDiscReasons(calc.s, calc.s._total_size = 600000000)
  /\ BurnIsoCall =>
       Range(calc.reasons) = isoReasons
                               \cup HoldsDiscReasons(calc.s, ~NoIsoFile /\ calc.e.isoFile = 690000000)
  /\ CreateIsoCall =>
       Range(calc.reasons) = HoldsSourceReasons(calc.s)
                               \cup {r \in {"select ISO output"} : ~calc.s.out_text}
  /\ Len(calc.reasons) = Cardinality(Range(calc.reasons))

\* C22 as stated: ready iff the reasons list is empty, and the list holds exactly
\* the reasons of the mode; in burn-existing-image mode the missing or invalid image
\* path stands in place of the source-list and pending-size reasons.
C22_ReasonsOfTheMode ==
  Returned("_update_burn_enabled") =>
    ReasonsPerMode({r \in {"select ISO"} : NoIsoFile \/ UnreadableIsoFile})

\* C22 amended: as C22, except that in burn-existing-image mode an image file that
\* is there but whose size cannot be read gives the pending-size reason.
C22_ReasonsOfTheModeUnreadableIso ==
  Returned("_update_burn_enabled") =>
    ReasonsPerMode({r \in {"select ISO"} : NoIsoFile}
                     \cup {r \in {"calculating sizes"} : UnreadableIsoFile})

\* burn-existing-image mode, an unreadable image, a drive with a blank disc: the
\* only reason is the pending size
C22_Witness ==
  /\ Returned("_update_burn_enabled") /\ BurnIsoCall /\ UnreadableIsoFile
  /\ calc.s._pending_size = {} /\ calc.s.list = <<>>
  /\ calc.reasons = <<"calculating sizes">> /\ ~calc.ready

\* C23: in create-image mode the readiness does not depend on the drive selection,
\* the media state or the media capacity: with sources present, no pending size and
\* an output path the evaluation is ready and Burn starts the job, whatever those
\* three are, and the estimate of its size is the size itself, without a margin.
CreateIsoInputsComplete ==
  calc.s.create_iso /\ calc.s.list # <<>> /\ calc.s._pending_size = {} /\ calc.s.out_text
C23_CreateIsoIgnoresDriveAndMedia ==
  /\ (Returned("_update_burn_enabled") /\ CreateIsoInputsComplete) =>
        calc.ready /\ calc.reasons = <<>>
  /\ (Returned("start_burn") /\ CreateIsoInputsComplete) => calc.started
  /\ (Returned("_estimate_image_size") /\ calc.create_iso) => calc.result = calc.size

\* ready without a drive, without a blank disc, with 600,000,000 bytes of files
\* against a disc of 700,000,000 bytes
C23_Witness ==
  /\ Returned("_update_burn_enabled") /\ CreateIsoInputsComplete
  /\ calc.s.drive = "none" /\ ~calc.s._media_blank
  /\ calc.s._media_capacity_bytes = 700000000 /\ calc.s._total_size = 600000000
  /\ calc.ready

EntryNames(staging_dir) == {en.name : en \in staging_dir}
SameBaseName == \A i \in 1..Len(calc.source_paths) :
                  calc.source_paths[i].base_name = calc.source_paths[1].base_name

\* C24: safe_copy_into_staging never writes to a top-level staging name that already
\* exists: every earlier entry is left as it was and the new one has a new name, and
\* k sources with the same base name give the k entries name, name_1, ..., name_(k-1).
C24_NoOverwriteDistinctNames ==
  Returned("safe_copy_into_staging") =>
    LET k == Len(calc.source_paths)
        name == calc.source_paths[1].base_name
    IN /\ calc.before \subseteq calc.staging_dir
       /\ \A en \in calc.staging_dir \ calc.before : en.name \notin EntryNames(calc.before)
       /\ Cardinality(EntryNames(calc.staging_dir)) = Cardinality(calc.staging_dir)
       /\ SameBaseName =>
            EntryNames(calc.staging_dir) = {name} \cup {name \o <<Numeral(n)>> : n \in 1..(k - 1)}

\* C25: the exclusion set is applied during directory copy only: every source given
\* at the top level, file or directory, has its entry in the staging directory
\* whatever its name, and a mirrored directory lacks exactly its excluded entries.
C25_ExclusionInsideDirectoriesOnly ==
  Returned("safe_copy_into_staging") =>
    \A i \in 1..Len(calc.source_paths) :
      \E en \in calc.staging_dir :
        /\ en.src = i /\ en.isdir = calc.source_paths[i].isdir
        /\ en.names = calc.source_paths[i].names \ excluded

\* ---------------------------------------- claims on the progress and rate events
BurnRun == calc.method = "BurnWorker.run"
IsoRun == calc.method = "IsoCreateWorker.run"
Infos(events) == {i \in 1..Len(events) : events[i].ev = "progress_info"}

\* C26: every observation delivered by the platform in a non-transfer phase
\* (validating, formatting, finalizing, verifying, idle) empties the speed-sample
\* window and publishes (0.0, none), also when its percent equals the previous one.
C26_NonTransferPublishesZero ==
  (BurnRun /\ calc.obs # <<>> /\ ~writing(calc.obs[3])) =>
     /\ calc._speed_history = <<>>
     /\ \E i \in Infos(calc.emitted) : calc.emitted[i] = ProgressInfo(ZeroSpeed, NoEta)

\* the third observation of the scenario (t=1s,10%), (t=2s,30%), (t=3s,30%,Finalizing)
\* with 1,000,000,000 bytes: nothing is published and the window keeps both samples
C26_ScenarioThirdObservation ==
  /\ BurnRun /\ calc._total_bytes_est = 1000000000 /\ calc.updates = 3
  /\ calc.obs = <<3, 30, "Finalizing session">>
  /\ calc._speed_history = <<100000000, 200000000>>
  /\ calc.emitted = <<Status("Finalizing session")>>

Mean(q) == Rat(Sum(q), Len(q))
RatEqual(x, y) == IF x.den = y.den THEN x.num = y.num ELSE x.num * y.den = y.num * x.den
WindowStep(published(_, _)) ==
  (BurnRun /\ calc' # calc) =>
    LET h == calc._speed_history
        h2 == calc'._speed_history
        pushed == h2 # <<>> /\ h2 # h
    IN /\ Len(h2) <= 8
       /\ pushed => /\ h2 = IF Len(h) = 8 THEN Append(Tail(h), h2[Len(h2)])
                                               ELSE Append(h, h2[Len(h2)])
                    /\ \E i \in 1..Len(calc'.emitted) :
                         /\ calc'.emitted[i].ev = "progress"
                         /\ calc'.emitted[i].percent > calc.last_progress
       /\ calc'.last_progress >= calc.last_progress
       /\ \A i \in Infos(calc'.emitted) :
            h2 # <<>> => RatEqual(calc'.emitted[i].speed, published(calc', h2))
MeanOf(c, h) == Mean(h)
MeanHeldToWriteSpeed(c, h) ==
  IF c.write_speed # 0 /\ Sum(h) > c.write_speed * 1024 * Len(h)
    THEN Rat(c.write_speed * 1024, 1) ELSE Mean(h)

\* C27 as stated: the window never holds more than 8 samples (the oldest is evicted
\* first), a sample is pushed only when percent exceeds lastEmittedPercent,
\* lastEmittedPercent never decreases, and the published speed is the arithmetic
\* mean of the window whenever it is non-empty.
C27_WindowAndMean == [][WindowStep(MeanOf)]_vars

\* C27 amended: as C27, the published speed being the mean of the window held to
\* write_speed * 1024 when a write speed is configured.
C27_WindowAndCappedMean == [][WindowStep(MeanHeldToWriteSpeed)]_vars

\* the window is full after an eviction and its mean is above the configured speed
C27_Witness ==
  /\ BurnRun /\ calc.updates = 10 /\ Len(calc._speed_history) = 8
  /\ calc.write_speed = 97656 /\ Sum(calc._speed_history) = 800000000
  /\ calc.info.speed = Rat(99999744, 1)

\* the bytes done at a progress_info event: the share of the total that the percent
\* published with it stands for (burn), the bytes written up to the total (image)
DoneBytes(i) ==
  IF BurnRun THEN (calc._total_bytes_est \div 100) * calc.emitted[i - 1].percent
  ELSE Min(calc._total_bytes_est, calc.written * MiB)

\* C28: when a write speed is configured every published speed is at most
\* write_speed * 1024; in every published pair the ETA is present iff the speed is
\* above zero, and then it is (total - done bytes) / speed and not negative.
C28_SpeedCappedEtaConsistent ==
  (BurnRun \/ IsoRun) =>
    \A i \in Infos(calc.emitted) :
      LET speed == calc.emitted[i].speed
          eta == calc.emitted[i].eta
      IN /\ (BurnRun /\ calc.write_speed # 0) =>
              speed.num <= calc.write_speed * 1024 * speed.den
         /\ speed.den > 0 /\ speed.num >= 0
         /\ eta.present <=> speed.num > 0
         /\ eta.present => /\ eta.speed = speed
                           /\ eta.remaining = calc._total_bytes_est - DoneBytes(i)
                           /\ eta.remaining >= 0

\* a pair published at the configured speed, with its ETA
C28_Witness ==
  /\ BurnRun /\ calc.write_speed = 97656 /\ calc.emitted # <<>>
  /\ \E i \in Infos(calc.emitted) :
       /\ calc.emitted[i].speed = Rat(99999744, 1)
       /\ calc.emitted[i].eta.present /\ calc.emitted[i].eta.remaining = 900000000

\* C29: in both job kinds every progress(percent) event of a job is followed at once
\* by exactly one progress_info event.
C29_ProgressThenInfo ==
  (BurnRun \/ IsoRun) =>
    \A i \in 1..Len(calc.emitted) :
      calc.emitted[i].ev = "progress" =>
        /\ i < Len(calc.emitted) /\ calc.emitted[i + 1].ev = "progress_info"
        /\ i + 2 <= Len(calc.emitted) => calc.emitted[i + 2].ev # "progress_info"

C31_ExistingImageSkipsStaging ==
  (kind = "burn" /\ iso_path # "none") =>
    /\ ~tmpdir /\ rmtreeCount = 0
    /\ pc \notin CopyPcs \cup {"mkdtemp", "size_walk", "build"}
    /\ chunksDone = 0 /\ chunksAfterStop = 0 /\ ~srcAfterStop
    /\ pc \in {"write", "finish"} =>
         _total_bytes_est = (IF iso_path = "unreadable" THEN 0 ELSE 734003200)

\* the image is being written, its size could not be read
C31_Witness ==
  /\ kind = "burn" /\ iso_path = "unreadable" /\ pc = "write" /\ cbCount >= 1
  /\ _total_bytes_est = 0 /\ ~tmpdir

\* C33: an image-creation job reports done(True, ...) only if, the expected size
\* block_size * total_blocks being non-zero, the bytes written equal it and, with
\* verify requested, the size of the output file equals it too; a job whose size
\* check or verification found a mismatch ends with done(False, <the size-mismatch
\* message>).
C33_SizeMismatchFails ==
  (kind = "iso" /\ doneCount >= 1) =>
    /\ (doneOk /\ expected_size # 0) =>
         (written = expected_size /\ (verify => actual_size = expected_size))
    /\ (exc \in {MsgSizeMismatch, MsgVerifyMismatch}) => (~doneOk /\ doneMsg = exc)

\* the part of C33 the code keeps: no success report on a size mismatch
C33_NoSuccessOnMismatch ==
  (kind = "iso" /\ doneCount >= 1 /\ doneOk /\ expected_size # 0) =>
    (written = expected_size /\ (verify => actual_size = expected_size))

\* C35: the final report says "Stopped by user" only when a checkpoint observed
\* the cancellation flag; a job ended by any other failure reports that failure's
\* own message in done(False, message), also with the stop flag set.
C35_OnlyCheckpointsReportStopped ==
  doneCount >= 1 =>
    /\ (doneMsg = MsgStopped) => (cause = "checkpoint")
    /\ (cause = "failure") => (~doneOk /\ doneMsg = exc)

\* --------------------------------------------------- jobs of both kinds
\* SpecJobs: the coordinator on a machine with one recorder, the user adding
\* paths, switching between burn and create-ISO mode and starting jobs of both
\* kinds. FairJobs adds what the platform guarantees while its calls return: a
\* started worker thread runs to its done.emit (the thread scheduler: weak
\* fairness of JobRun), and a queued done signal is delivered (the event loop of
\* the main thread, which also runs inside a modal dialog: weak fairness of
\* DeliverDone, written out with its enabling condition DoneQueued and the change
\* DoneHandled only it makes).
NextJobs ==
  \/ JobEngine
  \/ AddFiles \/ SizeWorker \/ DeliverSizeComputed \/ DeliverSizeFinished
  \/ ToggleMode \/ SelectIsoOutput
  \/ WriterLookupWorker \/ DeliverWritersResult \/ DeliverWriterFinished
  \/ MediaStatusWorker \/ DeliverMediaResult \/ DeliverMediaFinished
  \/ SpeedLookupWorker \/ DeliverSpeedResult \/ DeliverSpeedFinished

EnvJobs == [InitEnv EXCEPT !.media = {BlankDisc}]

InitJobs == RunIdle /\ mw = InitMw /\ env = EnvJobs /\ calc = NoCall

SpecJobs == InitJobs /\ [][NextJobs]_vars

\* a done event waits in the event queue of the main thread
DoneQueued == \E j \in 1..MaxJobs : CanDeliver(mw.jobs, j)
\* the done event of a job is handled in this step
DoneHandled == \E j \in 1..MaxJobs : mw.jobs[j].res = "queued" /\ mw'.jobs[j].res # "queued"

FairJobs ==
  /\ SpecJobs
  /\ WF_vars(JobRun)
  /\ ([]<>(~DoneQueued) \/ []<><<DoneHandled>>_vars)

\* the controls _set_ui_enabled(True) enables in the mode of the window
InputControls(s) ==
  {"btn_add_files", "btn_refresh", "volume", "chk_verify", "action_burn_disc",
   "action_create_iso"}
    \cup (IF s.create_iso THEN {"iso_out_path_edit", "btn_browse_iso_out"}
                          ELSE {"chk_use_iso_input", "drive", "write_speed"})

EngineIdle ==
  /\ mw.worker = 0 /\ ~mw._burning /\ mw._active_job = "none"
  /\ ~isEnabled(mw, "btn_stop")
  /\ InputControls(mw) \subseteq mw.enabled

\* C32: every started job returns the engine to Idle: the step that handles its
\* done event leaves worker None, _burning false, _active_job None, the Stop
\* button disabled and the input controls enabled, and a state with a worker set
\* always leads to such a state.
C32_JobReturnsToIdle ==
  /\ [][DoneHandled => EngineIdle']_vars
  /\ (mw.worker # 0) ~> EngineIdle

C32_Witness ==
  /\ mw.doneKind = "burn" /\ ~mw.doneOk /\ EngineIdle /\ NoModal
  /\ mw.create_iso /\ isEnabled(mw, "btn_burn")

\* -------------------------------------------------- background workers
\* C34: every invocation of a background worker produces exactly one result
\* event: result or error for the writer enumeration, the media-status poll and
\* the write-speed lookup, result for the size computation.
C34_OneResultPerInvocation ==
  (calc.method \in WorkerMethods /\ calc.returned) =>
    /\ Len(calc.emitted) = 1
    /\ calc.emitted[1].sig \in
         (IF calc.method = "SizeWorker.run" THEN {"result"} ELSE {"result", "error"})
    /\ (calc.method = "SizeWorker.run") => ~calc.emitted[1].error

\* a media-status poll whose recorder cannot be opened reports one error
C34_Witness ==
  /\ calc.method = "MediaStatusWorker.run" /\ calc.returned /\ calc.raisesAt = "dispatch"
  /\ calc.emitted = <<WorkerError>>

\* ---------------------------------------------------- closing the window
\* the user asks to close the main window (a modal dialog blocks the request)
CloseRequest == NoModal /\ Step(closeEvent(mw))
\* the finished signal of a worker connected to close() is delivered, after the
\* done signal of the same thread
DeliverJobFinished ==
  /\ mw.closeQueued
  /\ \A j \in 1..MaxJobs : ~(mw.jobs[j].closeConn /\ mw.jobs[j].res = "queued")
  /\ Step(closeEvent([mw EXCEPT !.closeQueued = FALSE]))

\* SpecClose: ISO files are created on a machine without a recorder and the
\* user asks to close the window at any moment.
NextClose ==
  \/ JobEngine
  \/ AddFiles \/ SizeWorker \/ DeliverSizeComputed \/ DeliverSizeFinished
  \/ ToggleMode \/ SelectIsoOutput
  \/ WriterLookupWorker \/ DeliverWritersResult \/ DeliverWriterFinished
  \/ CloseRequest \/ DeliverJobFinished

SpecClose == InitCreateIso /\ [][NextClose]_vars

JobThreadsRunning == {j \in 1..MaxJobs : mw.jobs[j].alive}
ExitQuestions(s) == Cardinality({i \in 1..Len(s.modals) : s.modals[i].kind = "exit"})

\* C39: the main window never closes while a job worker runs; once the user
\* confirmed the exit (_pending_close), the stop flag of the worker is set
\* and the question is not asked again, and the finished signal of that worker
\* closes the window.
C39_NoCloseWhileWorkerRuns ==
  [][/\ mw'.closed => JobThreadsRunning = {}
     /\ mw._pending_close => ExitQuestions(mw') <= ExitQuestions(mw)
     /\ (mw.closeQueued /\ ~mw'.closeQueued) => mw'.closed]_vars

\* the parts of C39 that do not depend on when worker is set to None
C39_NoCloseWhileWorkerSet ==
  [][/\ mw'.closed => ~isRunning(mw.jobs, mw.worker)
     /\ mw._pending_close => ExitQuestions(mw') <= ExitQuestions(mw)]_vars

\* ------------------------------------------------------------ busy flags
BusyFlagsAgree ==
  /\ mw._burning <=> (mw.worker # 0)
  /\ mw._burning <=> (mw._active_job \in {"burn", "iso"})
  /\ (mw.worker # 0) => (mw.jobs[mw.worker].kind = mw._active_job)

\* C40: between two UI events _burning is true iff worker is not None iff
\* _active_job is "burn" or "iso", _active_job is the kind of the worker, and the
\* busy status text is "Processing..." for an image-creation job and "Burning..."
\* for a burn job.
C40_BusyFlagsAndText ==
  /\ BusyFlagsAgree
  /\ mw._burning =>
       mw.status_label = <<IF mw._active_job = "iso" THEN "Processing..." ELSE "Burning...">>

\* ------------------------------------------------ cancellation in fmt.Write
\* the step is one OnUpdate callback
Callback == calc.method = "BurnWorker.run" /\ calc'.updates = calc.updates + 1
EventKinds(events) == {events[i].ev : i \in 1..Len(events)}

\* C36: once a write callback observes the stop flag, that callback and every
\* later one call CancelWrite on the sender and emit no progress and no status
\* event; before that, a callback emits a progress event only when the percent
\* differs from the last emitted percent, and the log line "Status: ..." only
\* when the action code changed.
C36_CancellingCallbacksAreSilent ==
  [][Callback =>
       IF calc._stop_requested \/ calc.cancels >= 1
         THEN /\ calc'.cancels = calc.cancels + 1
              /\ EventKinds(calc'.emitted) \cap {"progress", "status"} = {}
         ELSE /\ calc'.cancels = calc.cancels
              /\ \A i \in 1..Len(calc'.emitted) :
                    calc'.emitted[i].ev = "progress" =>
                      calc'.emitted[i].percent # calc._last_percent
              /\ calc'.logged # <<>> => calc'.action # calc._last_action]_vars

\* the second callback after the stop request, after progress was reported
C36_Witness ==
  /\ calc.method = "BurnWorker.run" /\ calc.cancels = 2 /\ calc._last_percent > 0
  /\ calc.emitted = <<>> /\ calc.logged = <<"Cancelling burn...">>

\* ------------------------------------------------- the sizes of the paths
\* the keys of the dict _path_sizes
Keys(s) == {p \in Paths : s._path_sizes[p] # -1}
RECURSIVE SumOfSizes(_, _)
SumOfSizes(s, S) ==
  IF S = {} THEN 0
  ELSE LET p == CHOOSE p \in S : TRUE IN s._path_sizes[p] + SumOfSizes(s, S \ {p})

\* C37: after any sequence of add-path, remove-selected, clear-list and
\* size-result events, _total_size is the sum of the values of _path_sizes and is
\* not negative, and _pending_size is a subset of the keys of _path_sizes.
C37_TotalIsSumOfSizes ==
  /\ mw._total_size = SumOfSizes(mw, Keys(mw))
  /\ mw._total_size >= 0
  /\ mw._pending_size \subseteq Keys(mw)

\* a path was removed and added again while its first worker ran: the size of
\* the first worker is recorded, the second worker runs, another path is sized
C37_Witness ==
  \E p \in Range(mw.list), q \in Range(mw.list) :
    /\ p # q /\ mw._path_sizes[q] > 0 /\ mw._path_sizes[p] > 0
    /\ p \notin mw._pending_size
    /\ mw._current_size_worker.phase = "run" /\ mw._current_size_worker.path = p
    /\ mw._total_size = mw._path_sizes[p] + mw._path_sizes[q]

\* FairPaths: SpecPaths where every SizeWorker finishes: a started worker thread
\* computes and emits its result (the thread scheduler), and its queued result
\* and finished signals are delivered (the event loop of the main thread).
FairPaths ==
  /\ SpecPaths
  /\ WF_vars(SizeWorker) /\ WF_vars(DeliverSizeComputed) /\ WF_vars(DeliverSizeFinished)

\* the user changed the source list in this step
ListEdited == mw'.list # mw.list

\* C38: every path that is added and stays in the source list eventually leaves
\* _pending_size with a computed size recorded, so that the reason "calculating
\* sizes" (a non-empty _pending_size) does not persist forever unless the user
\* keeps changing the list.
C38_PendingSizesResolve ==
  /\ \A p \in Paths :
       (p \in mw._pending_size) ~>
          (p \notin Range(mw.list) \/ (p \notin mw._pending_size /\ mw._path_sizes[p] \in PathSizes))
  /\ ([]<>(mw._pending_size = {}) \/ []<><<ListEdited>>_vars)

\* three paths were added while the first was being sized, and all are sized
C38_Witness ==
  /\ Len(mw.list) = 3 /\ mw._pending_size = {} /\ mw.sizeWorkersAlive = 0
  /\ \A p \in Paths : mw._path_sizes[p] \in PathSizes
====
